---- MODULE Spec2Model ----
(***************************************************************************)
(* Verification model of the attendance tracker's anti-spoofing pipeline:  *)
(* the persistence layer (tpo_sessions / attendance_records with their     *)
(* UNIQUE constraint and row-level-security policies), the StudentForm     *)
(* submit handler, the StudentAttendance step machine and the              *)
(* LocationVerifier component.                                             *)
(***************************************************************************)
EXTENDS Integers, Sequences, FiniteSets, TLC

Null == "null"

\* null where the program holds an object
NoSession == [id |-> Null, network_token |-> Null, expires_at |-> 0]
NoRow == [session_id |-> Null, device_fingerprint |-> Null, uid |-> Null]
NoCoords == [latitude |-> 0, longitude |-> 0, accuracy |-> 0,
             altitude |-> <<>>, speed |-> <<>>, isNull |-> TRUE]
NoLocation == [latitude |-> 0, longitude |-> 0, isNull |-> TRUE]
NoTarget == [lat |-> 0, lng |-> 0, radiusMeters |-> 0, isNull |-> TRUE]

(* ---- bounds of the model ---- *)
MaxTime == 1          \* the clock runs over 0..MaxTime
MaxSubmits == 1       \* submit clicks per StudentForm instance
MaxCodeRuns == 2      \* completions of the session-code input
MaxNetRuns == 1       \* completions of the network-token input
MaxLocRuns == 2       \* clicks on Verify / Retry of LocationVerifier
MaxDevRuns == 2       \* clicks on Verify / Retry of DeviceVerifier
MaxClock == 3         \* last instant of the clock a TimeWindowCheck is run to
InputLength == 2      \* the length prop of the SecureCodeInput
MaxPending == 1       \* scheduled onComplete calls that have not run yet
MaxCreated == 2       \* sessions an operator creates
MaxSubs == 3          \* calls of startDevToolsDetection
MaxLedger == 3        \* entries the submission ledger is filled to
MaxLength == 3        \* largest length for which every random array is tried
MaxCount == 3         \* largest count passed to collectLocationSamples

Tabs == {1, 2}
Fingerprints == {"f1", "f2"}
Uids == {"u1", "u2"}
Admin == "admin"
Anon == "anon"

VARIABLES
  sessions,   \* rows of public.tpo_sessions
  records,    \* rows of public.attendance_records
  nextId,     \* source of fresh attendance_records.id values
  now,        \* the clock: now() of the database, new Date() of the client
  authUid,    \* auth.uid() of the student's browser
  form,       \* per tab: the StudentForm instance and its insert round trip
  page,       \* React state of the StudentAttendance page
  formTimer,  \* the 500 ms timer of the show-form effect is armed
  tasks,      \* pending timers and queries of the Code, Network and Device steps
  runs,       \* how many checks of each step have been triggered so far
  loc,        \* React state of the mounted LocationVerifier
  locRuns,    \* verifyLocation calls that have not finished
  dev,        \* React state of the mounted DeviceVerifier
  devRuns,    \* verifyDevice calls that have not finished
  env,        \* the browser: geolocation API, user agent, localStorage, props
  geoRequests,\* number of getCurrentPosition calls made so far
  existed,    \* history: pairs that had a record when Device resolved verified
  timeWin,    \* React state and props of a TimeWindowCheck
  gen,        \* a call of generateSecureCode: its locals and its outcome
  ledger,     \* localStorage item "tpo_submissions" of the browser
  idx,        \* per tab: React state of the Index page and its pending timers
  detect,     \* devToolsDetector: module state, timers, document listeners
  sci         \* a SecureCodeInput: its boxes and its scheduled onComplete calls

storeVars == <<sessions, records, nextId, now, authUid>>
pageVars == <<page, formTimer, tasks, runs, loc, locRuns, dev, devRuns, env,
              geoRequests, existed>>
widgetVars == <<timeWin, gen, ledger, idx, detect, sci>>
exceptTimeWin == <<gen, ledger, idx, detect, sci>>
exceptGen == <<timeWin, ledger, idx, detect, sci>>
exceptLedger == <<timeWin, gen, idx, detect, sci>>
exceptIndex == <<timeWin, gen, detect, sci>>
exceptDetect == <<timeWin, gen, ledger, idx, sci>>
exceptInput == <<timeWin, gen, ledger, idx, detect>>
pageExceptEnv == <<page, formTimer, tasks, runs, loc, locRuns, dev, devRuns,
                   geoRequests, existed>>
vars == <<sessions, records, nextId, now, authUid, form, page, formTimer,
          tasks, runs, loc, locRuns, dev, devRuns, env, geoRequests, existed,
          timeWin, gen, ledger, idx, detect, sci>>

\* A TimeWindowCheck that is not rendered with session bounds.
TimeWinAbsent ==
  [start |-> <<>>, end |-> <<>>, currentTime |-> 0, isValid |-> TRUE,
   message |-> <<>>, effect |-> FALSE]

\* No call of generateSecureCode is in progress.
GenIdle ==
  [caller |-> "none", length |-> 0, array |-> <<>>, result |-> <<>>,
   pc |-> "idle"]

\* localStorage without the item: getItem returns null.
NoItem == [present |-> FALSE, items |-> <<>>]

\* devToolsDetector as loaded: isDevToolsOpen = false, listeners = [], no timer
\* and no document listener of its own.  subs is the history of the calls of
\* startDevToolsDetection, calls the callbacks invoked by the latest step;
\* each registry entry carries, besides its callback, the call that pushed it.
DetectLoaded ==
  [isDevToolsOpen |-> FALSE, listeners |-> <<>>, intervals |-> {},
   keydown |-> <<>>, contextmenu |-> <<>>, subs |-> <<>>, calls |-> <<>>,
   defaultPrevented |-> FALSE]

\* SecureCodeInput as mounted: Array(length).fill(""), nothing scheduled.
InputFresh == [code |-> [i \in 1..InputLength |-> ""], timers |-> {}]

\* A tab that does not show the Index page.
IdxUnloaded ==
  [loaded |-> FALSE, sessionCode |-> Null, codeStatus |-> "pending",
   networkStatus |-> "pending", locationStatus |-> "pending",
   deviceStatus |-> "pending", deviceFingerprint |-> Null,
   showForm |-> FALSE, alreadySubmitted |-> FALSE, codeTimers |-> {},
   formTimer |-> FALSE, devRun |-> <<>>, formPc |-> "idle",
   onSubmit |-> <<>>]

WidgetsAbsent ==
  /\ timeWin = TimeWinAbsent
  /\ gen = GenIdle
  /\ ledger = NoItem
  /\ idx = [t \in Tabs |-> IdxUnloaded]
  /\ detect = DetectLoaded
  /\ sci = InputFresh

(* ---- persistence layer ---- *)

\* Rows of tpo_sessions present after construction.
InitialSessions ==
  { [id |-> "s1", session_code |-> "ABCD", network_token |-> "WXYZ",
     created_by |-> Admin, is_active |-> TRUE, expires_at |-> 2],
    [id |-> "s2", session_code |-> "EFGH", network_token |-> "QRST",
     created_by |-> Admin, is_active |-> TRUE, expires_at |-> 1] }

SessionIds == {s.id : s \in InitialSessions}

InitialRecords == {}

\* WITH CHECK of policy "Anyone can record attendance".
InsertPolicyNoExpiry(sid) ==
  \E s \in sessions : s.id = sid /\ s.is_active = TRUE

InsertPolicy(sid) ==
  \E s \in sessions : s.id = sid /\ s.is_active = TRUE /\ s.expires_at > now

\* UNIQUE(session_id, device_fingerprint)
UniqueViolationNever(sid, fp) == FALSE

UniqueViolation(sid, fp) ==
  \E r \in records : r.session_id = sid /\ r.device_fingerprint = fp

\* Error codes an INSERT INTO attendance_records can return; the empty set
\* means the row is accepted.  The migration states the policy and the
\* constraint, not which one is reported when both reject the row, so both
\* codes are possible then.
InsertErrors(sid, fp) ==
  (IF InsertPolicy(sid) THEN {} ELSE {"42501"})
    \cup (IF UniqueViolation(sid, fp) THEN {"23505"} ELSE {})

\* The row handleFormSubmit sends.
InsertRow(f, uid) ==
  [session_id |-> f.sessionId, device_fingerprint |-> f.deviceFingerprint,
   uid |-> uid]

\* The row as stored, with the column defaults.
NewRecord(row) ==
  [id |-> nextId, session_id |-> row.session_id,
   device_fingerprint |-> row.device_fingerprint,
   uid |-> row.uid, recorded_at |-> now]

(* ---- StudentForm ---- *)

FormIdle(sid, fp) ==
  [mounted |-> TRUE, sessionId |-> sid, deviceFingerprint |-> fp,
   isSubmitting |-> FALSE, isSubmitted |-> FALSE, pc |-> "idle",
   row |-> NoRow, error |-> Null, toast |-> "none", onSubmitCalls |-> 0,
   submits |-> 0]

FormUnmounted ==
  [mounted |-> FALSE, sessionId |-> Null, deviceFingerprint |-> Null,
   isSubmitting |-> FALSE, isSubmitted |-> FALSE, pc |-> "idle",
   row |-> NoRow, error |-> Null, toast |-> "none", onSubmitCalls |-> 0,
   submits |-> 0]

\* handleFormSubmit up to the await: the submit button is disabled while
\* isSubmitting and the form is replaced by the success view once isSubmitted.
FormSubmit(t, uid) ==
  /\ form[t].mounted
  /\ ~form[t].isSubmitting
  /\ ~form[t].isSubmitted
  /\ form[t].pc = "idle"
  /\ form[t].submits < MaxSubmits
  /\ form' = [form EXCEPT ![t].isSubmitting = TRUE, ![t].pc = "sent",
                          ![t].row = InsertRow(form[t], uid),
                          ![t].submits = @ + 1]
  /\ UNCHANGED storeVars
  /\ UNCHANGED pageVars
  /\ UNCHANGED widgetVars

\* The database executes the INSERT of tab t.
DbInsert(t) ==
  /\ form[t].pc = "sent"
  /\ LET errs == InsertErrors(form[t].row.session_id,
                              form[t].row.device_fingerprint)
     IN IF errs = {}
        THEN /\ records' = records \cup {NewRecord(form[t].row)}
             /\ nextId' = nextId + 1
             /\ form' = [form EXCEPT ![t].pc = "replied", ![t].error = "none"]
        ELSE /\ \E e \in errs :
                  form' = [form EXCEPT ![t].pc = "replied", ![t].error = e]
             /\ UNCHANGED <<records, nextId>>
  /\ UNCHANGED <<sessions, now, authUid>>
  /\ UNCHANGED pageVars
  /\ UNCHANGED widgetVars

\* The request never reaches the database: the client gets an error that
\* carries no SQLSTATE.
InsertTransportError(t) ==
  /\ form[t].pc = "sent"
  /\ form' = [form EXCEPT ![t].pc = "replied", ![t].error = "fetch"]
  /\ UNCHANGED storeVars
  /\ UNCHANGED pageVars
  /\ UNCHANGED widgetVars

ConflictAsGeneric(f) ==
  [f EXCEPT !.pc = "idle", !.error = Null, !.toast = "failed",
            !.isSubmitting = FALSE]

ConflictReply(f) ==
  [f EXCEPT !.pc = "idle", !.error = Null, !.toast = "already",
            !.isSubmitting = FALSE]

\* handleFormSubmit after the await.
FormReply(t) ==
  /\ form[t].pc = "replied"
  /\ form' = [form EXCEPT ![t] =
       IF @.error = "none"
       THEN [@ EXCEPT !.pc = "idle", !.error = Null, !.toast = "success",
                      !.isSubmitted = TRUE, !.onSubmitCalls = @ + 1]
       ELSE IF @.error = "23505"
       THEN ConflictReply(@)
       ELSE [@ EXCEPT !.pc = "idle", !.error = Null, !.toast = "failed",
                      !.isSubmitting = FALSE]]
  /\ UNCHANGED storeVars
  /\ UNCHANGED pageVars
  /\ UNCHANGED widgetVars

(* ---- operator console and clock ---- *)

\* SessionList.toggleSessionActive
ToggleSessionActive(sid) ==
  /\ sessions' = { IF s.id = sid THEN [s EXCEPT !.is_active = ~s.is_active]
                   ELSE s : s \in sessions }
  /\ \E s \in sessions : s.id = sid
  /\ UNCHANGED <<records, nextId, now, authUid, form>>
  /\ UNCHANGED pageVars
  /\ UNCHANGED widgetVars

Tick ==
  /\ now < MaxTime
  /\ now' = now + 1
  /\ UNCHANGED <<sessions, records, nextId, authUid, form>>
  /\ UNCHANGED pageVars
  /\ UNCHANGED widgetVars

(* ---- StudentAttendance: state, rendering, show-form effect ---- *)

PageTab == 1   \* the tab whose StudentForm the page renders

PageInitial ==
  [sessionData |-> NoSession, codeStatus |-> "pending",
   networkStatus |-> "pending", locationStatus |-> "pending",
   deviceStatus |-> "pending", timeValid |-> TRUE,
   deviceFingerprint |-> Null, userLocation |-> NoLocation,
   showForm |-> FALSE, alreadySubmitted |-> FALSE]

allVerified(p) ==
  /\ p.codeStatus = "verified"
  /\ p.networkStatus = "verified"
  /\ p.locationStatus = "verified"
  /\ p.deviceStatus = "verified"
  /\ p.timeValid

\* What the page renders: the step list unless alreadySubmitted or showForm.
StepsRendered(p) == ~p.alreadySubmitted /\ ~p.showForm
CodeInputEnabled(p) ==
  StepsRendered(p) /\ p.codeStatus \notin {"verified", "verifying"}
NetInputEnabled(p) ==
  /\ StepsRendered(p) /\ p.codeStatus = "verified"
  /\ p.networkStatus \notin {"verified", "verifying"}
LocRendered(p) == StepsRendered(p) /\ p.networkStatus = "verified"
DevRendered(p) == StepsRendered(p) /\ p.locationStatus = "verified"
FormRendered(p) == ~p.alreadySubmitted /\ p.showForm

\* The show-form effect with dependencies [allVerified, showForm,
\* alreadySubmitted]: when a dependency changed, the cleanup clears the timer
\* of the previous run and the effect arms a new one if its condition holds.
EffectDeps(p) == <<allVerified(p), p.showForm, p.alreadySubmitted>>
ShowFormCond(p) == allVerified(p) /\ ~p.showForm /\ ~p.alreadySubmitted

ShowFormEffectNoCleanup(p, q, timer) ==
  IF EffectDeps(p) = EffectDeps(q) THEN timer ELSE timer \/ ShowFormCond(q)

ShowFormEffect(p, q, timer) ==
  IF EffectDeps(p) = EffectDeps(q) THEN timer ELSE ShowFormCond(q)

LocFresh ==
  [status |-> "idle", error |-> <<>>, spoofWarnings |-> <<>>,
   coords |-> NoCoords]
DevFresh == [status |-> "idle", fingerprint |-> Null, error |-> Null]

\* A component that is not rendered loses its state; its pending calls go on
\* but no longer reach a mounted instance.
Detach(rs) == {[r EXCEPT !.live = FALSE] : r \in rs}

\* The StudentForm of the page: mounted with the current props while rendered.
RenderForm(q, f) ==
  IF FormRendered(q)
  THEN IF f.mounted
       THEN [f EXCEPT !.sessionId = q.sessionData.id,
                      !.deviceFingerprint = q.deviceFingerprint]
       ELSE [FormIdle(q.sessionData.id, q.deviceFingerprint)
               EXCEPT !.pc = f.pc, !.row = f.row, !.error = f.error,
                      !.submits = f.submits]
  ELSE [f EXCEPT !.mounted = FALSE]

\* Re-render after the page state became q: the effect runs, components that
\* are no longer rendered unmount.
Commit(q, l, lr, d, dr) ==
  /\ page' = q
  /\ formTimer' = ShowFormEffect(page, q, formTimer)
  /\ loc' = IF LocRendered(q) THEN l ELSE LocFresh
  /\ locRuns' = IF LocRendered(q) THEN lr ELSE Detach(lr)
  /\ dev' = IF DevRendered(q) THEN d ELSE DevFresh
  /\ devRuns' = IF DevRendered(q) THEN dr ELSE Detach(dr)
  /\ form' = [form EXCEPT ![PageTab] = RenderForm(q, @)]

CommitPage(q) == Commit(q, loc, locRuns, dev, devRuns)

(* ---- Code step ---- *)

\* String.prototype.toUpperCase on the strings of the model.
ToUpper(str) ==
  CASE str = "abcd" -> "ABCD"
    [] str = "wxyz" -> "WXYZ"
    [] OTHER -> str

TypedCodes == {"abcd", "EFGH"}
TypedTokens == {"wxyz", "QRST"}

\* SecureCodeInput: the last character completes the code and onComplete is
\* scheduled 100 ms later; the inputs stay enabled until the step status
\* changes.
CodeEntered(c) ==
  /\ CodeInputEnabled(page)
  /\ runs.code < MaxCodeRuns
  /\ runs' = [runs EXCEPT !.code = @ + 1]
  /\ tasks' = tasks \cup {[id |-> runs.code + 1, kind |-> "codeTimer",
                           arg |-> ToUpper(c), sess |-> NoSession, at |-> 0]}
  /\ UNCHANGED <<page, formTimer, loc, locRuns, dev, devRuns, env,
                 geoRequests, existed, form>>
  /\ UNCHANGED storeVars
  /\ UNCHANGED widgetVars

\* Timers armed with the same delay fire in the order they were armed.
FirstArmed(k) == \A j \in tasks : j.kind = k.kind => j.id >= k.id

\* handleSessionCodeComplete up to the await.
CodeTimerFires(k) ==
  /\ k \in tasks /\ k.kind = "codeTimer"
  /\ FirstArmed(k)
  /\ tasks' = (tasks \ {k}) \cup
                {[k EXCEPT !.kind = "codeQuery", !.arg = ToUpper(k.arg),
                           !.at = now]}
  /\ CommitPage([page EXCEPT !.codeStatus = "verifying"])
  /\ UNCHANGED <<runs, env, geoRequests, existed>>
  /\ UNCHANGED storeVars
  /\ UNCHANGED widgetVars

\* Policies "Admins can view their own sessions" and "Anyone can view active
\* sessions for verification".
SessionSelectPolicy(s) == s.created_by = authUid \/ s.is_active = TRUE

\* select ... .eq('session_code', code).eq('is_active', true)
\*            .gt('expires_at', at).maybeSingle()
SelectSession(code, at) ==
  { [id |-> s.id, network_token |-> s.network_token,
     expires_at |-> s.expires_at] :
      s \in { x \in sessions : /\ SessionSelectPolicy(x)
                               /\ x.session_code = code
                               /\ x.is_active = TRUE
                               /\ x.expires_at > at } }

\* handleSessionCodeComplete after the await, the query having answered.
CodeQueryResolves(k) ==
  /\ k \in tasks /\ k.kind = "codeQuery"
  /\ tasks' = tasks \ {k}
  /\ LET data == SelectSession(k.arg, k.at)
     IN IF data # {}
        THEN CommitPage([page EXCEPT !.sessionData = CHOOSE d \in data : TRUE,
                                     !.codeStatus = "verified"])
        ELSE CommitPage([page EXCEPT !.codeStatus = "failed"])
  /\ UNCHANGED <<runs, env, geoRequests, existed>>
  /\ UNCHANGED storeVars
  /\ UNCHANGED widgetVars

CodeQueryFailsSilently(k) ==
  /\ k \in tasks /\ k.kind = "codeQuery"
  /\ tasks' = tasks \ {k}
  /\ CommitPage(page)
  /\ UNCHANGED <<runs, env, geoRequests, existed>>
  /\ UNCHANGED storeVars
  /\ UNCHANGED widgetVars

\* handleSessionCodeComplete after the await, the query having failed.
CodeQueryFails(k) ==
  /\ k \in tasks /\ k.kind = "codeQuery"
  /\ tasks' = tasks \ {k}
  /\ CommitPage([page EXCEPT !.codeStatus = "failed"])
  /\ UNCHANGED <<runs, env, geoRequests, existed>>
  /\ UNCHANGED storeVars
  /\ UNCHANGED widgetVars

(* ---- Network step ---- *)

\* SecureCodeInput of the token: onComplete is the handleNetworkTokenComplete
\* of the render in which the token was completed, closed over its
\* sessionData.
TokenEntered(tok) ==
  /\ NetInputEnabled(page)
  /\ runs.net < MaxNetRuns
  /\ runs' = [runs EXCEPT !.net = @ + 1]
  /\ tasks' = tasks \cup {[id |-> runs.net + 1, kind |-> "netTimer",
                           arg |-> ToUpper(tok), sess |-> page.sessionData,
                           at |-> 0]}
  /\ UNCHANGED <<page, formTimer, loc, locRuns, dev, devRuns, env,
                 geoRequests, existed, form>>
  /\ UNCHANGED storeVars
  /\ UNCHANGED widgetVars

\* handleNetworkTokenComplete up to setTimeout.
NetTimerFires(k) ==
  /\ k \in tasks /\ k.kind = "netTimer"
  /\ FirstArmed(k)
  /\ IF k.sess = NoSession
     THEN /\ tasks' = tasks \ {k}
          /\ CommitPage(page)
     ELSE /\ tasks' = (tasks \ {k}) \cup {[k EXCEPT !.kind = "netVerify"]}
          /\ CommitPage([page EXCEPT !.networkStatus = "verifying"])
  /\ UNCHANGED <<runs, env, geoRequests, existed>>
  /\ UNCHANGED storeVars
  /\ UNCHANGED widgetVars

\* The 500 ms callback of handleNetworkTokenComplete.
NetVerifyFires(k) ==
  /\ k \in tasks /\ k.kind = "netVerify"
  /\ FirstArmed(k)
  /\ tasks' = tasks \ {k}
  /\ IF ToUpper(k.arg) = k.sess.network_token
     THEN CommitPage([page EXCEPT !.networkStatus = "verified"])
     ELSE CommitPage([page EXCEPT !.networkStatus = "failed"])
  /\ UNCHANGED <<runs, env, geoRequests, existed>>
  /\ UNCHANGED storeVars
  /\ UNCHANGED widgetVars

(* ---- devToolsDetector: location heuristics ---- *)

\* navigator.userAgent.toLowerCase() and String.includes on the user agents
\* of the model.
UserAgents == {"Mozilla/5.0", "MockGPS/2.1", "FakeLocation/1.0"}
LowerCase(ua) ==
  CASE ua = "Mozilla/5.0" -> "mozilla/5.0"
    [] ua = "MockGPS/2.1" -> "mockgps/2.1"
    [] ua = "FakeLocation/1.0" -> "fakelocation/1.0"
    [] OTHER -> ua
Includes(str, w) ==
  \/ str = "mockgps/2.1" /\ w = "mock"
  \/ str = "fakelocation/1.0" /\ w = "fake"
  \/ str = w

checkLocationSpoofingSilentProbe ==
  LET probe ==
        IF env.geoApi = "throws"
        THEN <<>>
        ELSE IF env.geoApi # "native"
        THEN <<"Geolocation API appears to be modified">>
        ELSE <<>>
      ua == LowerCase(env.userAgent)
      agent ==
        IF Includes(ua, "mock") \/ Includes(ua, "fake")
        THEN <<"Mock location indicator detected in user agent">>
        ELSE <<>>
      reasons == probe \o agent
  IN [isSuspicious |-> Len(reasons) > 0, reasons |-> reasons]

checkLocationSpoofing ==
  LET probe ==
        IF env.geoApi = "throws"
        THEN <<"Unable to verify Geolocation API integrity">>
        ELSE IF env.geoApi # "native"
        THEN <<"Geolocation API appears to be modified">>
        ELSE <<>>
      ua == LowerCase(env.userAgent)
      agent ==
        IF Includes(ua, "mock") \/ Includes(ua, "fake")
        THEN <<"Mock location indicator detected in user agent">>
        ELSE <<>>
      reasons == probe \o agent
  IN [isSuspicious |-> Len(reasons) > 0, reasons |-> reasons]

\* Accuracy is held in tenths of a metre, speed in metres per second; a
\* nullable number is <<>> for null and <<v>> for the value v.
OneMetre == 10
TenMetres == 100
MaxSpeed == 100

validateGPSReadingSingleZeroWarning(coords) ==
  LET w1 == IF coords.accuracy = 0
            THEN <<"GPS accuracy is exactly 0">> ELSE <<>>
      w2 == IF coords.accuracy < OneMetre /\ coords.accuracy # 0
            THEN <<"GPS accuracy is suspiciously precise">> ELSE <<>>
      w3 == IF coords.altitude = <<>> /\ coords.accuracy < TenMetres
            THEN <<"High accuracy but no altitude data">> ELSE <<>>
      w4 == IF coords.speed # <<>> /\ coords.speed[1] > MaxSpeed
            THEN <<"Unrealistic movement speed detected">> ELSE <<>>
      warnings == w1 \o w2 \o w3 \o w4
  IN [isValid |-> Len(warnings) = 0, warnings |-> warnings]

validateGPSReading(coords) ==
  LET w1 == IF coords.accuracy = 0
            THEN <<"GPS accuracy is exactly 0">> ELSE <<>>
      w2 == IF coords.accuracy < OneMetre
            THEN <<"GPS accuracy is suspiciously precise">> ELSE <<>>
      w3 == IF coords.altitude = <<>> /\ coords.accuracy < TenMetres
            THEN <<"High accuracy but no altitude data">> ELSE <<>>
      w4 == IF coords.speed # <<>> /\ coords.speed[1] > MaxSpeed
            THEN <<"Unrealistic movement speed detected">> ELSE <<>>
      warnings == w1 \o w2 \o w3 \o w4
  IN [isValid |-> Len(warnings) = 0, warnings |-> warnings]

analyzeLocationSamplesIgnoringAccuracy(samples) ==
  IF Len(samples) < 2
  THEN [isSuspicious |-> FALSE, reason |-> ""]
  ELSE IF \A i \in 1..Len(samples) :
            /\ samples[i].latitude = samples[1].latitude
            /\ samples[i].longitude = samples[1].longitude
       THEN [isSuspicious |-> TRUE,
             reason |-> "GPS readings are perfectly identical across samples"]
       ELSE [isSuspicious |-> FALSE, reason |-> ""]

analyzeLocationSamples(samples) ==
  IF Len(samples) < 2
  THEN [isSuspicious |-> FALSE, reason |-> ""]
  ELSE LET allExactlySame ==
             \A i \in 1..Len(samples) :
               /\ samples[i].latitude = samples[1].latitude
               /\ samples[i].longitude = samples[1].longitude
           allSameAccuracy ==
             \A i \in 1..Len(samples) :
               samples[i].accuracy = samples[1].accuracy
       IN IF allExactlySame /\ allSameAccuracy
          THEN [isSuspicious |-> TRUE,
                reason |-> "GPS readings are perfectly identical across samples"]
          ELSE [isSuspicious |-> FALSE, reason |-> ""]

(* ---- LocationVerifier.calculateDistance ---- *)

\* The haversine formula in fixed point: angles and the values of sin and
\* cos are held in units of 1/Scale, coordinates are whole degrees, the
\* result is in metres.
Scale == 10000
PiScaled == 31416
EarthRadius == 6371000

\* division rounding toward zero, so that f(-x) = -f(x) as in floating point
Quot(x, d) == IF x < 0 THEN 0 - ((0 - x) \div d) ELSE x \div d

Radians(deg) == Quot(deg * PiScaled, 180)

\* Taylor series of sin on [0, pi/2]
SinSeries(x) ==
  LET x2 == (x * x) \div Scale
      x3 == (x2 * x) \div Scale
      x5 == (x3 * x2) \div Scale
      x7 == ((x5 \div 10) * x2) \div (Scale \div 10)
  IN x - (x3 \div 6) + (x5 \div 120) - (x7 \div 5040)

RECURSIVE Sin(_)
Sin(x) ==
  IF x < 0 THEN 0 - Sin(0 - x)
  ELSE IF x > PiScaled THEN 0 - Sin(x - PiScaled)
  ELSE IF 2 * x > PiScaled THEN SinSeries(PiScaled - x)
  ELSE SinSeries(x)

Cos(x) == Sin((PiScaled \div 2) - x)

RECURSIVE SqrtIter(_, _)
SqrtIter(n, x) ==
  LET y == (x + (n \div x)) \div 2
  IN IF y >= x THEN x ELSE SqrtIter(n, y)

Sqrt(n) == IF n <= 0 THEN 0 ELSE SqrtIter(n, n)

\* atan2(y, x) for y >= 0 and x >= 0, by bisection on the angle
RECURSIVE AtanBisect(_, _, _, _)
AtanBisect(y, x, lo, hi) ==
  IF hi - lo <= 1 THEN lo
  ELSE LET mid == (lo + hi) \div 2
       IN IF Sin(mid) * x <= Cos(mid) * y
          THEN AtanBisect(y, x, mid, hi)
          ELSE AtanBisect(y, x, lo, mid)

Atan2(y, x) == AtanBisect(y, x, 0, (PiScaled \div 2) + 1)

calculateDistance(lat1, lon1, lat2, lon2) ==
  LET phi1 == Radians(lat1)
      phi2 == Radians(lat2)
      dphi == Radians(lat2 - lat1)
      dlambda == Radians(lon2 - lon1)
      \* a is held in units of 1/Scale^2
      cc == (Cos(phi1) * Cos(phi2)) \div Scale
      ss == Sin(Quot(dlambda, 2)) * Sin(Quot(dlambda, 2))
      a == (Sin(Quot(dphi, 2)) * Sin(Quot(dphi, 2)))
             + (cc * (ss \div Scale)) + ((cc * (ss % Scale)) \div Scale)
      c == 2 * Atan2(Sqrt(a), Sqrt((Scale * Scale) - a))
  IN ((EarthRadius \div 1000) * c) \div (Scale \div 1000)

(* ---- LocationVerifier ---- *)

SampleCount == 3   \* collectLocationSamples(3, 800)

\* GeolocationCoordinates the platform can report.
AtTarget ==
  [latitude |-> 19, longitude |-> 72, accuracy |-> 50,
   altitude |-> <<14>>, speed |-> <<0>>, isNull |-> FALSE]
AtTargetRaw ==
  [latitude |-> 19, longitude |-> 72, accuracy |-> 0,
   altitude |-> <<>>, speed |-> <<150>>, isNull |-> FALSE]
FarAway ==
  [latitude |-> 20, longitude |-> 72, accuracy |-> 500,
   altitude |-> <<>>, speed |-> <<>>, isNull |-> FALSE]
EastOfTarget ==
  [latitude |-> 19, longitude |-> 73, accuracy |-> 50,
   altitude |-> <<14>>, speed |-> <<0>>, isNull |-> FALSE]
Positions == {AtTarget, AtTargetRaw, FarAway, EastOfTarget}
PagePositions == {AtTarget, FarAway}

\* Values of the targetLocation prop.
Campus == [lat |-> 19, lng |-> 72, radiusMeters |-> 200, isNull |-> FALSE]
CampusPoint == [lat |-> 19, lng |-> 72, radiusMeters |-> 0, isNull |-> FALSE]
Targets == {NoTarget, Campus, CampusPoint}

PositionErrorCodes == {1, 2, 3}

handleLocationVerificationStatusOnly(p, verified, coords) ==
  [p EXCEPT !.locationStatus = IF verified THEN "verified" ELSE "failed"]

\* StudentAttendance.handleLocationVerification
handleLocationVerification(p, verified, coords) ==
  [p EXCEPT !.locationStatus = IF verified THEN "verified" ELSE "failed",
            !.userLocation =
               IF verified /\ ~coords.isNull
               THEN [latitude |-> coords.latitude,
                     longitude |-> coords.longitude, isNull |-> FALSE]
               ELSE @]

FirstSample(samples) == samples[1]

LastSample(samples) == samples[Len(samples)]

WithinRadiusStrict(distance, radius) == distance < radius

WithinRadius(distance, radius) == distance <= radius

StaticSamplesAsWarning(l, samples) ==
  [ok |-> TRUE, coords |-> LastSample(samples),
   state |-> [l EXCEPT !.status = "verified",
                       !.spoofWarnings =
                          <<analyzeLocationSamples(samples).reason>>,
                       !.coords = LastSample(samples)]]

StaticSamples(l, samples) ==
  [ok |-> FALSE, coords |-> NoCoords,
   state |-> [l EXCEPT !.status = "spoofed",
                       !.spoofWarnings =
                          <<analyzeLocationSamples(samples).reason>>,
                       !.error = <<"GPS spoofing detected">>]]

\* verifyLocation after collectLocationSamples resolved: the new component
\* state, and the arguments of onVerificationComplete.
LocationOutcome(l, samples, target) ==
  IF analyzeLocationSamples(samples).isSuspicious
  THEN StaticSamples(l, samples)
  ELSE LET position == LastSample(samples)
           gpsValidation == validateGPSReading(position)
           l4 == [l EXCEPT !.spoofWarnings =
                     IF gpsValidation.isValid THEN @
                     ELSE gpsValidation.warnings,
                   !.coords = position]
       IN IF target.isNull
          THEN [ok |-> TRUE, coords |-> position,
                state |-> [l4 EXCEPT !.status = "verified"]]
          ELSE LET distance == calculateDistance(position.latitude,
                                                 position.longitude,
                                                 target.lat, target.lng)
               IN IF WithinRadius(distance, target.radiusMeters)
                  THEN [ok |-> TRUE, coords |-> position,
                        state |-> [l4 EXCEPT !.status = "verified"]]
                  ELSE [ok |-> FALSE, coords |-> NoCoords,
                        state |-> [l4 EXCEPT
                           !.status = "failed",
                           !.error = <<"away", distance,
                                       target.radiusMeters>>]]

SpoofedAtStartAsFailed(l) ==
  [l EXCEPT !.status = "failed",
            !.spoofWarnings = checkLocationSpoofing.reasons,
            !.error = <<"Location spoofing detected">>]

SpoofedAtStart(l) ==
  [l EXCEPT !.status = "spoofed",
            !.spoofWarnings = checkLocationSpoofing.reasons,
            !.error = <<"Location spoofing detected">>]

\* devToolsDetector.collectLocationSamples(count, intervalMs): the requests
\* it issues when called.  Requests are numbered in the order of issue.
AllRequestsAtOnce(count) == IF count < 1 THEN {1} ELSE 1..count

FirstRequests(count) == {1}

\* A call of collectLocationSamples: the samples stored so far, the request
\* that captured each, the requests awaiting their callback, the number of
\* requests issued, and whether the inter-sample timer is armed.
NewCollect(id, count) ==
  [id |-> id, count |-> count, samples |-> <<>>, order |-> <<>>,
   pending |-> FirstRequests(count),
   issued |-> Cardinality(FirstRequests(count)),
   timer |-> FALSE, live |-> TRUE]

EnoughSamplesEarly(samples, count) == Len(samples) >= count - 1

\* collected >= count
EnoughSamples(samples, count) == Len(samples) >= count

\* verifyLocation up to the first await: a click on Verify or Retry.
LocStart ==
  /\ LocRendered(page)
  /\ loc.status \in {"idle", "failed", "spoofed"}
  /\ runs.loc < MaxLocRuns
  /\ runs' = [runs EXCEPT !.loc = @ + 1]
  /\ IF ~env.geolocation
     THEN /\ Commit(handleLocationVerification(page, FALSE, NoCoords),
                    [loc EXCEPT !.status = "failed",
                                !.error = <<"Geolocation is not supported">>],
                    locRuns, dev, devRuns)
          /\ UNCHANGED geoRequests
     ELSE IF checkLocationSpoofing.isSuspicious
     THEN /\ Commit(handleLocationVerification(page, FALSE, NoCoords),
                    SpoofedAtStart(loc), locRuns, dev, devRuns)
          /\ UNCHANGED geoRequests
     ELSE /\ Commit(page,
                    [loc EXCEPT !.status = "verifying", !.error = <<>>,
                                !.spoofWarnings = <<>>],
                    locRuns \cup {NewCollect(runs.loc + 1, SampleCount)},
                    dev, devRuns)
          /\ geoRequests' =
               geoRequests + NewCollect(runs.loc + 1, SampleCount).issued
  /\ UNCHANGED <<tasks, env, existed>>
  /\ UNCHANGED storeVars
  /\ UNCHANGED widgetVars

\* The success callback of getCurrentPosition inside collectLocationSamples;
\* with the last sample the promise resolves and verifyLocation runs to its
\* end.
LocSample(r, pos) ==
  /\ r \in locRuns
  /\ \E q \in r.pending :
       LET samples == Append(r.samples, pos)
       IN IF EnoughSamples(samples, r.count)
          THEN LET out == LocationOutcome(loc, samples, env.targetLocation)
               IN Commit(handleLocationVerification(page, out.ok, out.coords),
                         IF r.live THEN out.state ELSE loc,
                         locRuns \ {r}, dev, devRuns)
          ELSE Commit(page, loc,
                      (locRuns \ {r}) \cup
                        {[r EXCEPT !.samples = samples,
                                   !.order = Append(@, q),
                                   !.pending = @ \ {q},
                                   !.timer = TRUE]},
                      dev, devRuns)
  /\ UNCHANGED <<tasks, runs, env, geoRequests, existed>>
  /\ UNCHANGED storeVars
  /\ UNCHANGED widgetVars

\* setTimeout(collect, intervalMs): the next getCurrentPosition call.
LocSampleTimer(r) ==
  /\ r \in locRuns /\ r.timer
  /\ locRuns' = (locRuns \ {r}) \cup
                  {[r EXCEPT !.timer = FALSE,
                             !.pending = @ \cup {r.issued + 1},
                             !.issued = @ + 1]}
  /\ geoRequests' = geoRequests + 1
  /\ UNCHANGED <<page, formTimer, tasks, runs, loc, dev, devRuns, env,
                 existed, form>>
  /\ UNCHANGED storeVars
  /\ UNCHANGED widgetVars

PositionErrorMessage(code) ==
  CASE code = 1 -> <<"Location access denied">>
    [] code = 2 -> <<"Location information unavailable">>
    [] code = 3 -> <<"Location request timed out">>
    [] OTHER -> <<"Unable to verify your location">>

\* The error callback of getCurrentPosition: collectLocationSamples rejects
\* and verifyLocation runs its catch block.
LocSampleError(r, code) ==
  /\ r \in locRuns /\ r.pending # {}
  /\ Commit(handleLocationVerification(page, FALSE, NoCoords),
            IF r.live
            THEN [loc EXCEPT !.status = "failed",
                             !.error = PositionErrorMessage(code)]
            ELSE loc,
            locRuns \ {r}, dev, devRuns)
  /\ UNCHANGED <<tasks, runs, env, geoRequests, existed>>
  /\ UNCHANGED storeVars
  /\ UNCHANGED widgetVars

(* ---- DeviceVerifier and the duplicate check ---- *)

\* deviceFingerprint.generateDeviceFingerprint: the SHA-256 hex digest of the
\* JSON of the collected signals, on the signal sets of the model.
SignalSets == {"signals-a", "signals-b"}
hashString(str) ==
  CASE str = "signals-a" -> "f1"
    [] str = "signals-b" -> "f2"
    [] OTHER -> "f0"
generateDeviceFingerprintPerVisit ==
  IF runs.dev = 0 THEN hashString(env.signals)
  ELSE hashString(CHOOSE sig \in SignalSets : sig # env.signals)

generateDeviceFingerprint == hashString(env.signals)

handleDeviceVerificationNoFingerprint(p, verified, fingerprint) ==
  [p EXCEPT !.deviceStatus = IF verified THEN "verified" ELSE "failed"]

\* StudentAttendance.handleDeviceVerification up to the await, closed over
\* the sessionData sess: the new page state.
handleDeviceVerification(p, verified, fingerprint) ==
  [p EXCEPT !.deviceStatus = IF verified THEN "verified" ELSE "failed",
            !.deviceFingerprint = IF fingerprint # Null THEN fingerprint
                                  ELSE @]

\* The duplicate-check query handleDeviceVerification sends.
DuplicateQuery(r, fingerprint) ==
  IF fingerprint # Null /\ r.sess # NoSession
  THEN {[id |-> r.id, kind |-> "dupQuery", arg |-> fingerprint,
         sess |-> r.sess, at |-> 0]}
  ELSE {}

\* verifyDevice up to the 1200 ms delay: a click on Verify or Retry.
DevStart ==
  /\ DevRendered(page)
  /\ dev.status \in {"idle", "failed"}
  /\ runs.dev < MaxDevRuns
  /\ runs' = [runs EXCEPT !.dev = @ + 1]
  /\ Commit(page, loc, locRuns,
            [dev EXCEPT !.status = "verifying", !.error = Null],
            devRuns \cup {[id |-> runs.dev + 1,
                           current |-> generateDeviceFingerprint,
                           stored |-> env.storage,
                           sess |-> page.sessionData, live |-> TRUE]})
  /\ UNCHANGED <<tasks, env, geoRequests, existed>>
  /\ UNCHANGED storeVars
  /\ UNCHANGED widgetVars

ConsistentAlways(current, stored) == TRUE

\* !storedFingerprint, else currentFingerprint === storedFingerprint
Consistent(current, stored) == stored = Null \/ current = stored

\* verifyDevice after the delay.
DevFinish(r) ==
  /\ r \in devRuns
  /\ LET ok == Consistent(r.current, r.stored)
         fp == IF ok THEN r.current ELSE Null
         d == IF ~r.live THEN dev
              ELSE IF ok
              THEN [dev EXCEPT !.status = "verified", !.fingerprint = r.current]
              ELSE [dev EXCEPT !.status = "failed",
                               !.error = "Device mismatch detected"]
     IN /\ Commit(handleDeviceVerification(page, ok, fp), loc, locRuns,
                  d, devRuns \ {r})
        /\ tasks' = tasks \cup DuplicateQuery(r, fp)
        /\ env' = IF r.stored = Null THEN [env EXCEPT !.storage = r.current]
                  ELSE env
        /\ existed' =
             IF ok /\ r.sess # NoSession /\ UniqueViolation(r.sess.id, fp)
             THEN existed \cup {<<r.sess.id, fp>>}
             ELSE existed
  /\ UNCHANGED <<runs, geoRequests>>
  /\ UNCHANGED storeVars
  /\ UNCHANGED widgetVars

\* verifyDevice when generating the fingerprint throws.
DevError(r) ==
  /\ r \in devRuns
  /\ Commit(handleDeviceVerification(page, FALSE, Null), loc, locRuns,
            IF r.live
            THEN [dev EXCEPT !.status = "failed",
                             !.error = "Unable to verify device"]
            ELSE dev,
            devRuns \ {r})
  /\ UNCHANGED <<tasks, runs, env, geoRequests, existed>>
  /\ UNCHANGED storeVars
  /\ UNCHANGED widgetVars

\* Policy "Admins can view attendance for their sessions".
AttendanceSelectPolicy(r) ==
  \E s \in sessions : s.id = r.session_id /\ s.created_by = authUid

\* select('id').eq('session_id', sid).eq('device_fingerprint', fp)
SelectAttendance(sid, fp) ==
  { r \in records : /\ AttendanceSelectPolicy(r)
                    /\ r.session_id = sid
                    /\ r.device_fingerprint = fp }

\* handleDeviceVerification after the await, the query having answered.
DupQueryResolves(k) ==
  /\ k \in tasks /\ k.kind = "dupQuery"
  /\ tasks' = tasks \ {k}
  /\ IF SelectAttendance(k.sess.id, k.arg) # {}
     THEN CommitPage([page EXCEPT !.alreadySubmitted = TRUE])
     ELSE CommitPage(page)
  /\ UNCHANGED <<runs, env, geoRequests, existed>>
  /\ UNCHANGED storeVars
  /\ UNCHANGED widgetVars

\* handleDeviceVerification after the await, the query having failed: data is
\* null and the error is not looked at.
DupQueryFails(k) ==
  /\ k \in tasks /\ k.kind = "dupQuery"
  /\ tasks' = tasks \ {k}
  /\ CommitPage(page)
  /\ UNCHANGED <<runs, env, geoRequests, existed>>
  /\ UNCHANGED storeVars
  /\ UNCHANGED widgetVars

(* ---- show-form timer ---- *)

\* setTimeout(() => setShowForm(true), 500)
ShowFormTimerFires ==
  /\ formTimer
  /\ CommitPage([page EXCEPT !.showForm = TRUE])
  /\ UNCHANGED <<tasks, runs, env, geoRequests, existed>>
  /\ UNCHANGED storeVars
  /\ UNCHANGED widgetVars


(* ---- the StudentAttendance page ---- *)

RunsInitial == [code |-> 0, net |-> 0, loc |-> 0, dev |-> 0]

PageEnvironments ==
  [geolocation : {TRUE}, geoApi : {"native"}, userAgent : {"Mozilla/5.0"},
   signals : {"signals-a"}, storage : {Null},
   targetLocation : {NoTarget}]

\* A record another visit of the same device left behind.
EarlierRecord ==
  [id |-> 0, session_id |-> "s1", device_fingerprint |-> "f1",
   uid |-> "u1", recorded_at |-> 0]

PageInit ==
  /\ sessions = InitialSessions
  /\ records \in {InitialRecords, {EarlierRecord}}
  /\ nextId = 1
  /\ now = 0
  /\ authUid \in {Anon, Admin}
  /\ form = [t \in Tabs |-> FormUnmounted]
  /\ page = PageInitial
  /\ formTimer = FALSE
  /\ tasks = {}
  /\ runs = RunsInitial
  /\ loc = LocFresh
  /\ locRuns = {}
  /\ dev = DevFresh
  /\ devRuns = {}
  /\ env \in PageEnvironments
  /\ geoRequests = 0
  /\ existed = {}
  /\ WidgetsAbsent

PageNext ==
  \/ \E c \in TypedCodes : CodeEntered(c)
  \/ \E k \in tasks : CodeTimerFires(k)
  \/ \E k \in tasks : CodeQueryResolves(k)
  \/ \E k \in tasks : CodeQueryFails(k)
  \/ \E tok \in TypedTokens : TokenEntered(tok)
  \/ \E k \in tasks : NetTimerFires(k)
  \/ \E k \in tasks : NetVerifyFires(k)
  \/ LocStart
  \/ \E r \in locRuns, pos \in PagePositions : LocSample(r, pos)
  \/ \E r \in locRuns : LocSampleTimer(r)
  \/ \E r \in locRuns : LocSampleError(r, 1)
  \/ DevStart
  \/ \E r \in devRuns : DevFinish(r)
  \/ \E r \in devRuns : DevError(r)
  \/ \E k \in tasks : DupQueryResolves(k)
  \/ \E k \in tasks : DupQueryFails(k)
  \/ ShowFormTimerFires
  \/ FormSubmit(PageTab, "u2")
  \/ DbInsert(PageTab)
  \/ InsertTransportError(PageTab)
  \/ FormReply(PageTab)
  \/ Tick

Spec == PageInit /\ [][PageNext]_vars


\* Every armed timer fires, every query resolves or rejects, and every
\* getCurrentPosition call calls back with a position or an error.
PageFairness ==
  /\ WF_vars(\E k \in tasks : CodeTimerFires(k))
  /\ WF_vars(\E k \in tasks : CodeQueryResolves(k) \/ CodeQueryFails(k))
  /\ WF_vars(\E k \in tasks : NetTimerFires(k))
  /\ WF_vars(\E k \in tasks : NetVerifyFires(k))
  /\ WF_vars(\E r \in locRuns :
               \/ \E pos \in PagePositions : LocSample(r, pos)
               \/ LocSampleError(r, 1))
  /\ WF_vars(\E r \in locRuns : LocSampleTimer(r))
  /\ WF_vars(\E r \in devRuns : DevFinish(r) \/ DevError(r))

\* The step machine of the page up to the display of the form, for a student
\* who is not signed in and whose device has no record yet.
LiveInit == PageInit /\ records = InitialRecords /\ authUid = Anon

LiveNext ==
  \/ \E c \in TypedCodes : CodeEntered(c)
  \/ \E k \in tasks : CodeTimerFires(k)
  \/ \E k \in tasks : CodeQueryResolves(k)
  \/ \E k \in tasks : CodeQueryFails(k)
  \/ \E tok \in TypedTokens : TokenEntered(tok)
  \/ \E k \in tasks : NetTimerFires(k)
  \/ \E k \in tasks : NetVerifyFires(k)
  \/ LocStart
  \/ \E r \in locRuns, pos \in PagePositions : LocSample(r, pos)
  \/ \E r \in locRuns : LocSampleTimer(r)
  \/ \E r \in locRuns : LocSampleError(r, 1)
  \/ DevStart
  \/ \E r \in devRuns : DevFinish(r)
  \/ \E r \in devRuns : DevError(r)
  \/ \E k \in tasks : DupQueryResolves(k)
  \/ \E k \in tasks : DupQueryFails(k)
  \/ ShowFormTimerFires

SpecLive == LiveInit /\ [][LiveNext]_vars /\ PageFairness


(* ---- the page on the end-to-end success path ---- *)

\* A getCurrentPosition success that does not complete a static series.
HappySample(r, pos) ==
  /\ r \in locRuns
  /\ ~analyzeLocationSamples(Append(r.samples, pos)).isSuspicious
       \/ Len(r.samples) < r.count - 1
  /\ LocSample(r, pos)

\* The student enters the code and the token of session s1 on a device
\* without a stored fingerprint and without a record; requests succeed; the
\* operator may close and reopen the session at any time, and time passes.
HappyInit == PageInit /\ records = InitialRecords /\ authUid = Anon

HappyNext ==
  \/ CodeEntered("abcd")
  \/ \E k \in tasks : CodeTimerFires(k)
  \/ \E k \in tasks : CodeQueryResolves(k)
  \/ TokenEntered("wxyz")
  \/ \E k \in tasks : NetTimerFires(k)
  \/ \E k \in tasks : NetVerifyFires(k)
  \/ LocStart
  \/ \E r \in locRuns, pos \in PagePositions : HappySample(r, pos)
  \/ \E r \in locRuns : LocSampleTimer(r)
  \/ DevStart
  \/ \E r \in devRuns : DevFinish(r)
  \/ \E k \in tasks : DupQueryResolves(k)
  \/ ShowFormTimerFires
  \/ FormSubmit(PageTab, "u2")
  \/ DbInsert(PageTab)
  \/ FormReply(PageTab)
  \/ ToggleSessionActive("s1")
  \/ Tick

\* The student goes on with every step that is offered, and every timer,
\* query and geolocation request completes.
HappyFairness ==
  /\ WF_vars(CodeEntered("abcd"))
  /\ WF_vars(\E k \in tasks : CodeTimerFires(k))
  /\ WF_vars(\E k \in tasks : CodeQueryResolves(k))
  /\ WF_vars(TokenEntered("wxyz"))
  /\ WF_vars(\E k \in tasks : NetTimerFires(k))
  /\ WF_vars(\E k \in tasks : NetVerifyFires(k))
  /\ WF_vars(LocStart)
  /\ WF_vars(\E r \in locRuns, pos \in PagePositions : HappySample(r, pos))
  /\ WF_vars(\E r \in locRuns : LocSampleTimer(r))
  /\ WF_vars(DevStart)
  /\ WF_vars(\E r \in devRuns : DevFinish(r))
  /\ WF_vars(\E k \in tasks : DupQueryResolves(k))
  /\ WF_vars(ShowFormTimerFires)
  /\ WF_vars(FormSubmit(PageTab, "u2"))
  /\ WF_vars(DbInsert(PageTab))
  /\ WF_vars(FormReply(PageTab))

SpecHappy == HappyInit /\ [][HappyNext]_vars /\ HappyFairness

(* ---- LocationVerifier under a page that reached the Location step ---- *)

LocEnvironments ==
  [geolocation : BOOLEAN, geoApi : {"native", "patched", "throws"},
   userAgent : UserAgents, signals : {"signals-a"}, storage : {Null},
   targetLocation : Targets]

PageAtLocation ==
  [PageInitial EXCEPT
     !.sessionData = [id |-> "s1", network_token |-> "WXYZ", expires_at |-> 2],
     !.codeStatus = "verified", !.networkStatus = "verified"]

LocInit ==
  /\ sessions = InitialSessions
  /\ records = InitialRecords
  /\ nextId = 1
  /\ now = 0
  /\ authUid = Anon
  /\ form = [t \in Tabs |-> FormUnmounted]
  /\ page = PageAtLocation
  /\ formTimer = FALSE
  /\ tasks = {}
  /\ runs = [RunsInitial EXCEPT !.code = 1, !.net = 1]
  /\ loc = LocFresh
  /\ locRuns = {}
  /\ dev = DevFresh
  /\ devRuns = {}
  /\ env \in LocEnvironments
  /\ geoRequests = 0
  /\ existed = {}
  /\ WidgetsAbsent

LocNext ==
  \/ LocStart
  \/ \E r \in locRuns, pos \in Positions : LocSample(r, pos)
  \/ \E r \in locRuns : LocSampleTimer(r)
  \/ \E r \in locRuns, code \in PositionErrorCodes : LocSampleError(r, code)

SpecLoc == LocInit /\ [][LocNext]_vars

(* ---- collectLocationSamples called with any count ---- *)

\* Environments in which verifyLocation gets as far as collecting samples.
CollectEnvironments ==
  {e \in LocEnvironments :
     e.geolocation /\ e.geoApi = "native" /\ e.userAgent = "Mozilla/5.0"}

\* The state right after collectLocationSamples(count, intervalMs) was called
\* from verifyLocation; count ranges over 0..MaxCount.
CollectInit ==
  /\ sessions = InitialSessions
  /\ records = InitialRecords
  /\ nextId = 1
  /\ now = 0
  /\ authUid = Anon
  /\ form = [t \in Tabs |-> FormUnmounted]
  /\ page = PageAtLocation
  /\ formTimer = FALSE
  /\ tasks = {}
  /\ runs = [RunsInitial EXCEPT !.code = 1, !.net = 1, !.loc = 1]
  /\ loc = [LocFresh EXCEPT !.status = "verifying"]
  /\ \E count \in 0..MaxCount :
       /\ locRuns = {NewCollect(1, count)}
       /\ geoRequests = NewCollect(1, count).issued
  /\ dev = DevFresh
  /\ devRuns = {}
  /\ env \in CollectEnvironments
  /\ existed = {}
  /\ WidgetsAbsent

CollectNext ==
  \/ \E r \in locRuns, pos \in Positions : LocSample(r, pos)
  \/ \E r \in locRuns : LocSampleTimer(r)
  \/ \E r \in locRuns, code \in PositionErrorCodes : LocSampleError(r, code)

SpecCollect == CollectInit /\ [][CollectNext]_vars

(* ---- the last reading of a non-static series ---- *)

\* GeolocationCoordinates of a reading at the target: accuracy in tenths of a
\* metre (0, 0.5 m, 1 m, 5 m, 10 m, 50 m), altitude null or 14 m, speed null,
\* 0, 100 or 150 m/s.
Readings ==
  [latitude : {19}, longitude : {72}, accuracy : {0, 5, 10, 50, 100, 500},
   altitude : {<<>>, <<14>>}, speed : {<<>>, <<0>>, <<100>>, <<150>>},
   isNull : {FALSE}]

\* verifyLocation awaiting the third sample after two different readings.
ReadingInit ==
  /\ sessions = InitialSessions
  /\ records = InitialRecords
  /\ nextId = 1
  /\ now = 0
  /\ authUid = Anon
  /\ form = [t \in Tabs |-> FormUnmounted]
  /\ page = PageAtLocation
  /\ formTimer = FALSE
  /\ tasks = {}
  /\ runs = [RunsInitial EXCEPT !.code = 1, !.net = 1, !.loc = 1]
  /\ loc = [LocFresh EXCEPT !.status = "verifying"]
  /\ locRuns = {[NewCollect(1, SampleCount) EXCEPT
                   !.samples = <<FarAway, EastOfTarget>>,
                   !.order = <<1, 2>>, !.pending = {3}, !.issued = 3]}
  /\ geoRequests = 3
  /\ dev = DevFresh
  /\ devRuns = {}
  /\ env \in CollectEnvironments
  /\ existed = {}
  /\ WidgetsAbsent

ReadingNext ==
  \/ \E r \in locRuns, pos \in Readings : LocSample(r, pos)
  \/ \E r \in locRuns, code \in PositionErrorCodes : LocSampleError(r, code)

SpecReading == ReadingInit /\ [][ReadingNext]_vars

(* ---- DeviceVerifier over several visits ---- *)

\* The page with the Code, Network and Location steps verified.
PageAtDevice ==
  [PageAtLocation EXCEPT
     !.locationStatus = "verified",
     !.userLocation = [latitude |-> AtTarget.latitude,
                       longitude |-> AtTarget.longitude, isNull |-> FALSE]]

\* What an earlier visit of this browser may have left in localStorage, and
\* the signals the browser reports.
DeviceEnvironments ==
  [geolocation : {TRUE}, geoApi : {"native"}, userAgent : {"Mozilla/5.0"},
   signals : SignalSets, storage : {Null} \cup Fingerprints,
   targetLocation : {NoTarget}]

DevInit ==
  /\ sessions = InitialSessions
  /\ records \in {InitialRecords, {EarlierRecord}}
  /\ nextId = 1
  /\ now = 0
  /\ authUid \in {Anon, Admin}
  /\ form = [t \in Tabs |-> FormUnmounted]
  /\ page = PageAtDevice
  /\ formTimer = FALSE
  /\ tasks = {}
  /\ runs = [RunsInitial EXCEPT !.code = 1, !.net = 1, !.loc = 1]
  /\ loc = [LocFresh EXCEPT !.status = "verified", !.coords = AtTarget]
  /\ locRuns = {}
  /\ dev = DevFresh
  /\ devRuns = {}
  /\ env \in DeviceEnvironments
  /\ geoRequests = 3
  /\ existed = {}
  /\ WidgetsAbsent

\* A new visit: the page is loaded again, which discards every pending timer
\* and promise of the old document and keeps localStorage, and the Code,
\* Network and Location steps are verified again.
Revisit ==
  /\ page' = PageAtDevice
  /\ formTimer' = FALSE
  /\ tasks' = {}
  /\ loc' = [LocFresh EXCEPT !.status = "verified", !.coords = AtTarget]
  /\ locRuns' = {}
  /\ dev' = DevFresh
  /\ devRuns' = {}
  /\ form' = [form EXCEPT ![PageTab] = FormUnmounted]
  /\ UNCHANGED <<runs, env, geoRequests, existed>>
  /\ UNCHANGED storeVars
  /\ UNCHANGED widgetVars

\* A signal read by collectFingerprintData changes (screen, language, ...).
SignalsChange(sig) ==
  /\ sig \in SignalSets /\ sig # env.signals
  /\ env' = [env EXCEPT !.signals = sig]
  /\ UNCHANGED <<page, formTimer, tasks, runs, loc, locRuns, dev, devRuns,
                 geoRequests, existed, form>>
  /\ UNCHANGED storeVars
  /\ UNCHANGED widgetVars

VisitNext ==
  \/ DevStart
  \/ \E r \in devRuns : DevFinish(r)
  \/ \E r \in devRuns : DevError(r)
  \/ \E k \in tasks : DupQueryResolves(k)
  \/ \E k \in tasks : DupQueryFails(k)
  \/ ShowFormTimerFires
  \/ Revisit

DevNext ==
  \/ VisitNext
  \/ \E sig \in SignalSets : SignalsChange(sig)

SpecDev == DevInit /\ [][DevNext]_vars

\* Visits of a browser that starts without a stored fingerprint and whose
\* signals do not change.
VisitsInit == DevInit /\ env.storage = Null

SpecVisits == VisitsInit /\ [][VisitNext]_vars

(* ---- TimeWindowCheck ---- *)

TimeWindowEnforcingGivenBound(t, start, end) ==
  IF start = <<>> /\ end = <<>>
  THEN [isValid |-> TRUE, message |-> <<"Session is currently active">>]
  ELSE IF start # <<>> /\ t < start[1]
  THEN [isValid |-> FALSE, message |-> <<"Session starts at", start[1]>>]
  ELSE IF end # <<>> /\ t > end[1]
  THEN [isValid |-> FALSE, message |-> <<"Session has ended">>]
  ELSE [isValid |-> TRUE, message |-> <<"Session is currently active">>]

TimeWindowEndExclusive(t, start, end) ==
  IF start = <<>> \/ end = <<>>
  THEN [isValid |-> TRUE, message |-> <<"Session is currently active">>]
  ELSE IF t < start[1]
  THEN [isValid |-> FALSE, message |-> <<"Session starts at", start[1]>>]
  ELSE IF t >= end[1]
  THEN [isValid |-> FALSE, message |-> <<"Session has ended">>]
  ELSE [isValid |-> TRUE, message |-> <<"minutes remaining", end[1] - t>>]

\* The body of the second effect: the verdict for currentTime = t; a prop is
\* <<>> when it is not given and <<instant>> when it is.  One unit
\* of the clock is one minute, so Math.ceil((end - now) / 60000) is end - t.
TimeWindow(t, start, end) ==
  IF start = <<>> \/ end = <<>>
  THEN [isValid |-> TRUE, message |-> <<"Session is currently active">>]
  ELSE IF t < start[1]
  THEN [isValid |-> FALSE, message |-> <<"Session starts at", start[1]>>]
  ELSE IF t > end[1]
  THEN [isValid |-> FALSE, message |-> <<"Session has ended">>]
  ELSE [isValid |-> TRUE, message |-> <<"minutes remaining", end[1] - t>>]

\* Pages on which the component is mounted: the steps in any status.
TimePages == {PageInitial, PageAtLocation, PageAtDevice}

\* The component right after its first render, with the props sessionStartTime
\* and sessionEndTime given or not: useState(new Date()), useState(true),
\* useState(""), both effects still to run.
TimeInit ==
  /\ sessions = InitialSessions
  /\ records = InitialRecords
  /\ nextId = 1
  /\ now \in 0..MaxClock
  /\ authUid = Anon
  /\ form = [t \in Tabs |-> FormUnmounted]
  /\ page \in TimePages
  /\ formTimer = FALSE
  /\ tasks = {}
  /\ runs = RunsInitial
  /\ loc = LocFresh
  /\ locRuns = {}
  /\ dev = DevFresh
  /\ devRuns = {}
  /\ env \in PageEnvironments
  /\ geoRequests = 0
  /\ existed = {}
  /\ \E start, end \in {<<>>} \cup {<<t>> : t \in 0..MaxClock} :
       timeWin = [start |-> start, end |-> end, currentTime |-> now,
                  isValid |-> TRUE, message |-> <<>>, effect |-> TRUE]
  /\ gen = GenIdle
  /\ ledger = NoItem
  /\ idx = [t \in Tabs |-> IdxUnloaded]
  /\ detect = DetectLoaded
  /\ sci = InputFresh

\* The clock advances.
TimePasses ==
  /\ now < MaxClock
  /\ now' = now + 1
  /\ UNCHANGED <<sessions, records, nextId, authUid, form>>
  /\ UNCHANGED pageVars
  /\ UNCHANGED widgetVars

\* The interval callback: setCurrentTime(new Date()).  The new Date is a new
\* object, so the second effect runs again after the render.
TimeTick ==
  /\ timeWin # TimeWinAbsent
  /\ timeWin' = [timeWin EXCEPT !.currentTime = now, !.effect = TRUE]
  /\ UNCHANGED exceptTimeWin
  /\ UNCHANGED pageVars
  /\ UNCHANGED storeVars
  /\ UNCHANGED form

\* The second effect: setIsValid, setMessage and onTimeValid(valid), which is
\* the page's setTimeValid.
TimeEffect ==
  /\ timeWin.effect
  /\ LET v == TimeWindow(timeWin.currentTime, timeWin.start, timeWin.end)
     IN /\ timeWin' = [timeWin EXCEPT !.isValid = v.isValid,
                                      !.message = v.message,
                                      !.effect = FALSE]
        /\ CommitPage([page EXCEPT !.timeValid = v.isValid])
  /\ UNCHANGED exceptTimeWin
  /\ UNCHANGED <<tasks, runs, env, geoRequests, existed>>
  /\ UNCHANGED storeVars

TimeNext ==
  \/ TimePasses
  \/ TimeTick
  \/ TimeEffect

SpecTime == TimeInit /\ [][TimeNext]_vars

(* ---- codeGenerator ---- *)

ALPHANUMERICWithO ==
  <<"A", "B", "C", "D", "E", "F", "G", "H", "J", "K", "L", "M", "N", "O", "Q",
    "R", "S", "T", "U", "V", "W", "X", "Y", "Z", "2", "3", "4", "5", "6", "7",
    "8", "9">>

\* 'ABCDEFGHJKLMNPQRSTUVWXYZ23456789', one character per element.
ALPHANUMERIC ==
  <<"A", "B", "C", "D", "E", "F", "G", "H", "J", "K", "L", "M", "N", "P", "Q",
    "R", "S", "T", "U", "V", "W", "X", "Y", "Z", "2", "3", "4", "5", "6", "7",
    "8", "9">>

\* crypto.getRandomValues throws QuotaExceededError for more bytes than this.
QuotaBytes == 65536
BytesPerElement == 4
CodeLength == 8

\* Elements crypto.getRandomValues may write: the ends of the 32-bit range
\* that the checker's integers hold, and values around multiples of 32.
RandomValues == {0, 7, 8, 13, 31, 32, 2147483647}
EdgeValues == {0, 2147483647}

RandomArrays(length) ==
  IF length <= MaxLength THEN [1..length -> RandomValues]
  ELSE [1..length -> EdgeValues]

RequestedLengths ==
  (-1..MaxLength) \cup {CodeLength, QuotaBytes \div BytesPerElement + 1}

\* A call of generateSecureCode(length), of generateSessionCode() or of
\* generateNetworkToken().
GenCall(caller, length) ==
  /\ gen.pc \in {"idle", "returned", "threw"}
  /\ caller \in {"generateSecureCode", "generateSessionCode",
                  "generateNetworkToken"}
  /\ caller # "generateSecureCode" => length = CodeLength
  /\ gen' = [caller |-> caller, length |-> length, array |-> <<>>,
             result |-> <<>>, pc |-> "called"]
  /\ UNCHANGED exceptGen
  /\ UNCHANGED pageVars
  /\ UNCHANGED storeVars
  /\ UNCHANGED form

\* new Uint32Array(length); crypto.getRandomValues(array); let result = ''
GenFill ==
  /\ gen.pc = "called"
  /\ IF gen.length < 0 \/ gen.length * BytesPerElement > QuotaBytes
     THEN gen' = [gen EXCEPT !.pc = "threw"]
     ELSE \E array \in RandomArrays(gen.length) :
            gen' = [gen EXCEPT !.array = array, !.pc = "loop"]
  /\ UNCHANGED exceptGen
  /\ UNCHANGED pageVars
  /\ UNCHANGED storeVars
  /\ UNCHANGED form

\* One iteration: result += ALPHANUMERIC[array[i] % ALPHANUMERIC.length],
\* with i = result.length and indices from 1.
GenAppend ==
  /\ gen.pc = "loop" /\ Len(gen.result) < gen.length
  /\ gen' = [gen EXCEPT !.result =
               Append(@, ALPHANUMERIC[(gen.array[Len(gen.result) + 1]
                                        % Len(ALPHANUMERIC)) + 1])]
  /\ UNCHANGED exceptGen
  /\ UNCHANGED pageVars
  /\ UNCHANGED storeVars
  /\ UNCHANGED form

\* return result
GenReturn ==
  /\ gen.pc = "loop" /\ ~(Len(gen.result) < gen.length)
  /\ gen' = [gen EXCEPT !.pc = "returned"]
  /\ UNCHANGED exceptGen
  /\ UNCHANGED pageVars
  /\ UNCHANGED storeVars
  /\ UNCHANGED form

GenNext ==
  \/ \E caller \in {"generateSecureCode", "generateSessionCode",
                     "generateNetworkToken"}, length \in RequestedLengths :
       GenCall(caller, length)
  \/ GenFill
  \/ GenAppend
  \/ GenReturn

\* No page is open in the browser and the stores are as deployed.
IdleInit ==
  /\ sessions = InitialSessions
  /\ records = InitialRecords
  /\ nextId = 1
  /\ now = 0
  /\ authUid = Admin
  /\ form = [t \in Tabs |-> FormUnmounted]
  /\ page = PageInitial
  /\ formTimer = FALSE
  /\ tasks = {}
  /\ runs = RunsInitial
  /\ loc = LocFresh
  /\ locRuns = {}
  /\ dev = DevFresh
  /\ devRuns = {}
  /\ env \in PageEnvironments
  /\ geoRequests = 0
  /\ existed = {}
  /\ WidgetsAbsent

SpecGen == IdleInit /\ [][GenNext]_vars

(* ---- submissionTracker ---- *)

\* JSON.parse(localStorage.getItem(SUBMISSION_KEY)), [] without the item.  The
\* item is only ever written by recordSubmission, as the JSON of an array of
\* records of strings and one integer, which parses back to the same array.
getSubmissions(item) == IF item.present THEN item.items ELSE <<>>

hasSubmitted(item, sessionCode, deviceFingerprint) ==
  \E i \in 1..Len(getSubmissions(item)) :
    /\ getSubmissions(item)[i].sessionCode = sessionCode
    /\ getSubmissions(item)[i].deviceFingerprint = deviceFingerprint

recordSubmissionOverwrite(item, sessionCode, deviceFingerprint, studentId, t) ==
  [present |-> TRUE,
   items |-> <<[sessionCode |-> sessionCode,
                deviceFingerprint |-> deviceFingerprint,
                timestamp |-> t, studentId |-> studentId]>>]

\* The item after recordSubmission at instant t = Date.now().
recordSubmission(item, sessionCode, deviceFingerprint, studentId, t) ==
  [present |-> TRUE,
   items |-> Append(getSubmissions(item),
                    [sessionCode |-> sessionCode,
                     deviceFingerprint |-> deviceFingerprint,
                     timestamp |-> t, studentId |-> studentId])]

\* submissions.find(...) || null: <<>> for null, else the first match.
getSubmissionForSession(item, sessionCode, deviceFingerprint) ==
  LET subs == getSubmissions(item)
      hits == {i \in 1..Len(subs) :
                 /\ subs[i].sessionCode = sessionCode
                 /\ subs[i].deviceFingerprint = deviceFingerprint}
  IN IF hits = {} THEN <<>>
     ELSE <<subs[CHOOSE i \in hits : \A j \in hits : i <= j]>>

\* localStorage.removeItem(SUBMISSION_KEY)
clearSubmissions == NoItem

LedgerCodes == {"TPO123", "TPO999"}
StudentIds == {"unknown"}

\* A caller records a submission.
RecordSubmission(sessionCode, deviceFingerprint, studentId) ==
  /\ Len(getSubmissions(ledger)) < MaxLedger
  /\ ledger' = recordSubmission(ledger, sessionCode, deviceFingerprint,
                                studentId, now)
  /\ UNCHANGED exceptLedger
  /\ UNCHANGED pageVars
  /\ UNCHANGED storeVars
  /\ UNCHANGED form

\* A caller clears the ledger.
ClearSubmissions ==
  /\ ledger' = clearSubmissions
  /\ UNCHANGED exceptLedger
  /\ UNCHANGED pageVars
  /\ UNCHANGED storeVars
  /\ UNCHANGED form

LedgerNext ==
  \/ \E c \in LedgerCodes, fp \in Fingerprints, id \in StudentIds :
       RecordSubmission(c, fp, id)
  \/ ClearSubmissions
  \/ Tick

SpecLedger == IdleInit /\ [][LedgerNext]_vars

(* ---- Index: the token-only page with the submission ledger ---- *)

VALID_SESSION_CODE == "TPO123"
EnteredCodes == {VALID_SESSION_CODE, "TPO999"}

\* Index as first rendered after a page load.
IdxLoaded == [IdxUnloaded EXCEPT !.loaded = TRUE]

\* allVerified; timeValid keeps its initial true, TimeWindowCheck being
\* rendered without session bounds.
IdxAllVerified(s) ==
  /\ s.codeStatus = "verified"
  /\ s.networkStatus = "verified"
  /\ s.locationStatus = "verified"
  /\ s.deviceStatus = "verified"

\* The render that follows a state change runs the show-form effect: its
\* cleanup clears the timer, its body arms a new one under the condition.
IdxCommit(s) ==
  [s EXCEPT !.formTimer = IdxAllVerified(s) /\ ~s.showForm
                            /\ ~s.alreadySubmitted]

\* alreadySubmitted ? message : !showForm ? steps : form
IdxSteps(s) == s.loaded /\ ~s.alreadySubmitted /\ ~s.showForm
IdxForm(s) == s.loaded /\ ~s.alreadySubmitted /\ s.showForm

IdxFrame ==
  /\ UNCHANGED exceptIndex
  /\ UNCHANGED storeVars
  /\ UNCHANGED form
  /\ UNCHANGED pageExceptEnv

\* The tab loads or reloads the page: a new document, the timers and promises
\* of the old one are gone.
IdxLoad(t) ==
  /\ idx' = [idx EXCEPT ![t] = IdxLoaded]
  /\ UNCHANGED <<ledger, env>>
  /\ IdxFrame

\* handleCodeComplete
IdxCodeComplete(t, code) ==
  /\ IdxSteps(idx[t])
  /\ idx[t].codeStatus # "verified"
  /\ idx' = [idx EXCEPT ![t] =
               IdxCommit([@ EXCEPT !.codeStatus = "verifying",
                                   !.codeTimers = @ \cup {code}])]
  /\ UNCHANGED <<ledger, env>>
  /\ IdxFrame

\* The 1500 ms timer of handleCodeComplete.
IdxCodeTimer(t, code) ==
  /\ code \in idx[t].codeTimers
  /\ idx' = [idx EXCEPT ![t] =
               IdxCommit(
                 IF code = VALID_SESSION_CODE
                 THEN [@ EXCEPT !.codeTimers = @ \ {code},
                                !.sessionCode = code,
                                !.codeStatus = "verified"]
                 ELSE [@ EXCEPT !.codeTimers = @ \ {code},
                                !.codeStatus = "failed"])]
  /\ UNCHANGED <<ledger, env>>
  /\ IdxFrame

\* handleNetworkVerification, called by the rendered, enabled NetworkTokenInput.
IdxNetwork(t, verified) ==
  /\ IdxSteps(idx[t])
  /\ idx[t].codeStatus = "verified"
  /\ idx[t].networkStatus # "verified"
  /\ idx' = [idx EXCEPT ![t] =
               IdxCommit([@ EXCEPT !.networkStatus =
                                     IF verified THEN "verified"
                                     ELSE "failed"])]
  /\ UNCHANGED <<ledger, env>>
  /\ IdxFrame

\* handleLocationVerification, called by the rendered LocationVerifier.
IdxLocation(t, verified) ==
  /\ IdxSteps(idx[t])
  /\ idx[t].networkStatus = "verified"
  /\ idx' = [idx EXCEPT ![t] =
               IdxCommit([@ EXCEPT !.locationStatus =
                                     IF verified THEN "verified"
                                     ELSE "failed"])]
  /\ UNCHANGED <<ledger, env>>
  /\ IdxFrame

\* verifyDevice of the rendered DeviceVerifier up to its delay; it holds the
\* handleDeviceVerification of the render it was started from.
IdxDevStart(t) ==
  /\ IdxSteps(idx[t])
  /\ idx[t].locationStatus = "verified"
  /\ idx[t].devRun = <<>>
  /\ idx' = [idx EXCEPT ![t].devRun =
               <<[sessionCode |-> idx[t].sessionCode,
                  current |-> generateDeviceFingerprint,
                  stored |-> env.storage]>>]
  /\ UNCHANGED <<ledger, env>>
  /\ IdxFrame

handleDeviceVerificationUnchecked(s, item, sessionCode, verified, fingerprint) ==
  [s EXCEPT !.deviceStatus = IF verified THEN "verified" ELSE "failed",
            !.deviceFingerprint = IF fingerprint # Null THEN fingerprint
                                  ELSE @]

\* Index.handleDeviceVerification closed over sessionCode, with the ledger as
\* hasSubmitted finds it.
IdxHandleDeviceVerification(s, item, sessionCode, verified, fingerprint) ==
  [s EXCEPT !.deviceStatus = IF verified THEN "verified" ELSE "failed",
            !.deviceFingerprint = IF fingerprint # Null THEN fingerprint
                                  ELSE @,
            !.alreadySubmitted =
               IF /\ fingerprint # Null
                  /\ sessionCode # Null
                  /\ hasSubmitted(item, sessionCode, fingerprint)
               THEN TRUE ELSE @]

\* verifyDevice after its delay.
IdxDevFinish(t) ==
  /\ idx[t].devRun # <<>>
  /\ LET r == idx[t].devRun[1]
         ok == Consistent(r.current, r.stored)
     IN /\ env' = IF r.stored = Null
                  THEN [env EXCEPT !.storage = r.current] ELSE env
        /\ idx' = [idx EXCEPT ![t] =
                     IdxCommit(IdxHandleDeviceVerification(
                       [@ EXCEPT !.devRun = <<>>], ledger, r.sessionCode, ok,
                       IF ok THEN r.current ELSE Null))]
  /\ UNCHANGED ledger
  /\ IdxFrame

\* The 500 ms timer of the show-form effect.
IdxShowFormTimer(t) ==
  /\ idx[t].formTimer
  /\ idx' = [idx EXCEPT ![t] = IdxCommit([@ EXCEPT !.showForm = TRUE])]
  /\ UNCHANGED <<ledger, env>>
  /\ IdxFrame

\* AttendanceForm.handleFormSubmit up to its delay; it holds the
\* handleAttendanceSubmit of the render it was started from.
IdxFormSubmit(t) ==
  /\ IdxForm(idx[t])
  /\ idx[t].formPc = "idle"
  /\ idx' = [idx EXCEPT ![t].formPc = "submitting",
                        ![t].onSubmit =
                          <<[sessionCode |-> idx[t].sessionCode,
                             deviceFingerprint |-> idx[t].deviceFingerprint]>>]
  /\ UNCHANGED <<ledger, env>>
  /\ IdxFrame

\* handleFormSubmit after its delay: setIsSubmitted(true) and onSubmit(data),
\* that is handleAttendanceSubmit with data.studentId undefined.
IdxFormDone(t) ==
  /\ idx[t].formPc = "submitting"
  /\ Len(getSubmissions(ledger)) < MaxLedger
  /\ LET c == idx[t].onSubmit[1]
     IN ledger' = IF c.sessionCode # Null /\ c.deviceFingerprint # Null
                  THEN recordSubmission(ledger, c.sessionCode,
                                        c.deviceFingerprint, "unknown", now)
                  ELSE ledger
  /\ idx' = [idx EXCEPT ![t].formPc = "submitted", ![t].onSubmit = <<>>]
  /\ UNCHANGED env
  /\ IdxFrame

IndexInit ==
  /\ sessions = InitialSessions
  /\ records = InitialRecords
  /\ nextId = 1
  /\ now = 0
  /\ authUid = Admin
  /\ form = [t \in Tabs |-> FormUnmounted]
  /\ page = PageInitial
  /\ formTimer = FALSE
  /\ tasks = {}
  /\ runs = RunsInitial
  /\ loc = LocFresh
  /\ locRuns = {}
  /\ dev = DevFresh
  /\ devRuns = {}
  /\ env \in DeviceEnvironments
  /\ geoRequests = 0
  /\ existed = {}
  /\ WidgetsAbsent

IndexNext ==
  \/ \E t \in Tabs :
       \/ IdxLoad(t)
       \/ \E code \in EnteredCodes :
            IdxCodeComplete(t, code) \/ IdxCodeTimer(t, code)
       \/ \E verified \in BOOLEAN :
            IdxNetwork(t, verified) \/ IdxLocation(t, verified)
       \/ IdxDevStart(t)
       \/ IdxDevFinish(t)
       \/ IdxShowFormTimer(t)
       \/ IdxFormSubmit(t)
       \/ IdxFormDone(t)
  \/ Tick

SpecIndex == IndexInit /\ [][IndexNext]_vars

\* Index with Code, Network and Location verified: the Device step is next.
IdxAtDevice ==
  [IdxLoaded EXCEPT !.sessionCode = VALID_SESSION_CODE,
                    !.codeStatus = "verified", !.networkStatus = "verified",
                    !.locationStatus = "verified"]

\* The Device step in the tabs of one browser, whose fingerprint signals may
\* change meanwhile.
BrowserInit ==
  /\ sessions = InitialSessions
  /\ records = InitialRecords
  /\ nextId = 1
  /\ now = 0
  /\ authUid = Admin
  /\ form = [t \in Tabs |-> FormUnmounted]
  /\ page = PageInitial
  /\ formTimer = FALSE
  /\ tasks = {}
  /\ runs = RunsInitial
  /\ loc = LocFresh
  /\ locRuns = {}
  /\ dev = DevFresh
  /\ devRuns = {}
  /\ env \in DeviceEnvironments
  /\ geoRequests = 0
  /\ existed = {}
  /\ timeWin = TimeWinAbsent
  /\ gen = GenIdle
  /\ ledger = NoItem
  /\ idx = [t \in Tabs |-> IdxAtDevice]
  /\ detect = DetectLoaded
  /\ sci = InputFresh

BrowserNext ==
  \/ \E t \in Tabs : IdxDevStart(t) \/ IdxDevFinish(t) \/ IdxShowFormTimer(t)
  \/ \E sig \in SignalSets : SignalsChange(sig)

SpecBrowser == BrowserInit /\ [][BrowserNext]_vars

(* ---- devToolsDetector: startDevToolsDetection and its cleanup ---- *)

\* The functions callers pass; each records the value it is given and returns.
Callbacks == {"cb1", "cb2"}
Keys == {"F12", "Ctrl+Shift+I", "Ctrl+Shift+J", "Ctrl+u", "a"}
OpensDevTools(key) == key \in {"F12", "Ctrl+Shift+I", "Ctrl+Shift+J"}

\* listeners.forEach((cb) => cb(value)): the invocations, in order.
Notify(listeners, value) ==
  [i \in 1..Len(listeners) |->
     [cb |-> listeners[i].cb, sub |-> listeners[i].sub, value |-> value]]

RECURSIVE NotifyTimes(_, _, _)
NotifyTimes(n, listeners, value) ==
  IF n = 0 THEN <<>>
  ELSE Notify(listeners, value) \o NotifyTimes(n - 1, listeners, value)

Without(seq, x) == SelectSeq(seq, LAMBDA y : y # x)

filterKeepingListeners(listeners, callback) == listeners

\* listeners.filter((cb) => cb !== callback)
filterListeners(listeners, callback) ==
  SelectSeq(listeners, LAMBDA e : e.cb # callback)

\* startDevToolsDetection(callback); sizeOrConsole is what the two probes
\* report at the initial check.
StartDevToolsDetection(callback, sizeOrConsole) ==
  /\ Len(detect.subs) < MaxSubs
  /\ LET id == Len(detect.subs) + 1
     IN detect' =
          [detect EXCEPT
             !.listeners = Append(@, [cb |-> callback, sub |-> id]),
             !.intervals = @ \cup {id},
             !.keydown = Append(@, id),
             !.contextmenu = Append(@, id),
             !.subs = Append(@, [callback |-> callback, stopped |-> FALSE]),
             !.isDevToolsOpen = IF sizeOrConsole THEN TRUE ELSE @,
             !.calls = IF sizeOrConsole
                       THEN <<[cb |-> callback, sub |-> id, value |-> TRUE]>>
                       ELSE <<>>]
  /\ UNCHANGED exceptDetect
  /\ UNCHANGED pageVars
  /\ UNCHANGED storeVars
  /\ UNCHANGED form

\* The setInterval callback of subscription id, the probes reporting newState.
DetectPoll(id, newState) ==
  /\ id \in detect.intervals
  /\ detect' =
       IF newState # detect.isDevToolsOpen
       THEN [detect EXCEPT !.isDevToolsOpen = newState,
                           !.calls = Notify(detect.listeners, newState)]
       ELSE [detect EXCEPT !.calls = <<>>]
  /\ UNCHANGED exceptDetect
  /\ UNCHANGED pageVars
  /\ UNCHANGED storeVars
  /\ UNCHANGED form

\* A keydown event on the document: every registered keyHandler runs.
KeyDown(key) ==
  /\ detect.keydown # <<>>
  /\ detect' =
       IF OpensDevTools(key)
       THEN [detect EXCEPT
               !.isDevToolsOpen = TRUE,
               !.defaultPrevented = TRUE,
               !.calls = NotifyTimes(Len(detect.keydown), detect.listeners,
                                     TRUE)]
       ELSE [detect EXCEPT !.defaultPrevented = (key = "Ctrl+u"),
                           !.calls = <<>>]
  /\ UNCHANGED exceptDetect
  /\ UNCHANGED pageVars
  /\ UNCHANGED storeVars
  /\ UNCHANGED form

\* A contextmenu event on the document: every registered contextHandler runs.
ContextMenu ==
  /\ detect' = [detect EXCEPT !.defaultPrevented = (detect.contextmenu # <<>>),
                              !.calls = <<>>]
  /\ UNCHANGED exceptDetect
  /\ UNCHANGED pageVars
  /\ UNCHANGED storeVars
  /\ UNCHANGED form

\* The function startDevToolsDetection returned for subscription id.
DetectCleanup(id) ==
  /\ id \in 1..Len(detect.subs)
  /\ detect' =
       [detect EXCEPT
          !.intervals = @ \ {id},
          !.keydown = Without(@, id),
          !.contextmenu = Without(@, id),
          !.listeners = filterListeners(@, detect.subs[id].callback),
          !.subs[id].stopped = TRUE,
          !.calls = <<>>]
  /\ UNCHANGED exceptDetect
  /\ UNCHANGED pageVars
  /\ UNCHANGED storeVars
  /\ UNCHANGED form

DetectNext ==
  \/ \E callback \in Callbacks, b \in BOOLEAN :
       StartDevToolsDetection(callback, b)
  \/ \E id \in 1..MaxSubs, b \in BOOLEAN : DetectPoll(id, b)
  \/ \E key \in Keys : KeyDown(key)
  \/ ContextMenu
  \/ \E id \in 1..MaxSubs : DetectCleanup(id)

SpecDetect == IdleInit /\ [][DetectNext]_vars

(* ---- SecureCodeInput: typing and pasting ---- *)

\* Characters a student may type or paste, and the value of a box's change
\* event: empty after a deletion, else what the box then holds.
Chars == {"a", "B", "7", "-", "ß"}
ChangeValues == Chars \cup {"", "ab"}

\* String.prototype.toUpperCase, as a sequence of characters: the German
\* sharp s has the two-letter upper case SS.
UpperChar(c) ==
  CASE c = "a" -> <<"A">>
    [] c = "ß" -> <<"S", "S">>
    [] OTHER -> <<c>>

RECURSIVE UpperText(_)
UpperText(text) ==
  IF text = <<>> THEN <<>>
  ELSE UpperChar(Head(text)) \o UpperText(Tail(text))

\* value.toUpperCase() of a value that passed the test of handleChange.
UpperValue(value) == IF value = "" THEN "" ELSE UpperChar(value)[1]

\* /^[A-Za-z0-9]?$/.test(value)
ChangeAccepted(value) == value \in {"", "a", "B", "7"}

\* [A-Z0-9], the characters .replace(/[^A-Z0-9]/g, '') keeps.
UpperAlnum(c) == c \in {"A", "B", "S", "7"}

\* [A-Za-z0-9]
Alnum(c) == c \in {"a", "B", "7"}

Take(seq, n) == SubSeq(seq, 1, IF Len(seq) < n THEN Len(seq) ELSE n)

\* getData("text").toUpperCase().replace(/[^A-Z0-9]/g, '').slice(0, length)
PastedData(text) == Take(SelectSeq(UpperText(text), UpperAlnum), InputLength)

\* newCode.every((c) => c !== "")
Complete(code) == \A i \in 1..InputLength : code[i] # ""

\* setTimeout(() => onComplete(newCode.join("")), 100) when complete.
Schedule(timers, code) == IF Complete(code) THEN timers \cup {code} ELSE timers

\* handleChange(index, value)
SciChange(index, value) ==
  /\ IF ~ChangeAccepted(value) THEN sci' = sci
     ELSE LET newCode == [sci.code EXCEPT ![index] = UpperValue(value)]
          IN /\ Complete(newCode) =>
                  (newCode \in sci.timers
                     \/ Cardinality(sci.timers) < MaxPending)
             /\ sci' = [code |-> newCode,
                        timers |-> Schedule(sci.timers, newCode)]
  /\ UNCHANGED exceptInput
  /\ UNCHANGED pageVars
  /\ UNCHANGED storeVars
  /\ UNCHANGED form

\* handlePaste of the clipboard text.
SciPaste(text) ==
  /\ LET pastedData == PastedData(text)
         newCode == [i \in 1..InputLength |->
                       IF i <= Len(pastedData) THEN pastedData[i]
                       ELSE sci.code[i]]
     IN IF Len(pastedData) > 0
        THEN /\ Complete(newCode) =>
                  (newCode \in sci.timers
                     \/ Cardinality(sci.timers) < MaxPending)
             /\ sci' = [code |-> newCode,
                        timers |-> Schedule(sci.timers, newCode)]
        ELSE sci' = sci
  /\ UNCHANGED exceptInput
  /\ UNCHANGED pageVars
  /\ UNCHANGED storeVars
  /\ UNCHANGED form

\* A scheduled timer runs: onComplete(newCode.join("")).
SciTimer(code) ==
  /\ code \in sci.timers
  /\ sci' = [sci EXCEPT !.timers = @ \ {code}]
  /\ UNCHANGED exceptInput
  /\ UNCHANGED pageVars
  /\ UNCHANGED storeVars
  /\ UNCHANGED form

RECURSIVE Texts(_)
Texts(n) ==
  IF n = 0 THEN {<<>>}
  ELSE Texts(n - 1) \cup {Append(t, c) : t \in Texts(n - 1), c \in Chars}

PastedTexts == Texts(InputLength + 1)

InputNext ==
  \/ \E index \in 1..InputLength, value \in ChangeValues :
       SciChange(index, value)
  \/ \E text \in PastedTexts : SciPaste(text)
  \/ \E code \in sci.timers : SciTimer(code)

SpecInput == IdleInit /\ [][InputNext]_vars

(* ---- the store with two mounted forms ---- *)

StoreInit ==
  /\ sessions = InitialSessions
  /\ records = InitialRecords
  /\ nextId = 1
  /\ now = 0
  /\ authUid = Anon
  /\ form \in [Tabs -> {FormIdle(sid, fp) : sid \in SessionIds,
                                            fp \in Fingerprints}]
  /\ page = PageInitial
  /\ formTimer = FALSE
  /\ tasks = {}
  /\ runs = RunsInitial
  /\ loc = LocFresh
  /\ locRuns = {}
  /\ dev = DevFresh
  /\ devRuns = {}
  /\ env \in PageEnvironments
  /\ geoRequests = 0
  /\ existed = {}
  /\ WidgetsAbsent

StoreNext ==
  \/ \E t \in Tabs, u \in Uids : FormSubmit(t, u)
  \/ \E t \in Tabs : DbInsert(t)
  \/ \E t \in Tabs : InsertTransportError(t)
  \/ \E t \in Tabs : FormReply(t)
  \/ \E sid \in SessionIds : ToggleSessionActive(sid)
  \/ Tick

SpecStore == StoreInit /\ [][StoreNext]_vars

(* ---- deleting sessions ---- *)

OrphaningDelete(rs, gone) == rs

\* session_id ... REFERENCES public.tpo_sessions(id) ON DELETE CASCADE: the
\* records left once the sessions with ids in gone are deleted.
CascadeDelete(rs, gone) == {r \in rs : r.session_id \notin gone}

\* SessionList.deleteSession, confirmed by its owner: delete().eq('id', sid).
DeleteSession(sid) ==
  /\ \E s \in sessions : s.id = sid
  /\ sessions' = {s \in sessions : s.id # sid}
  /\ records' = CascadeDelete(records, {sid})
  /\ UNCHANGED <<nextId, now, authUid, form>>
  /\ UNCHANGED pageVars
  /\ UNCHANGED widgetVars

\* created_by ... REFERENCES auth.users(id) ON DELETE CASCADE: the operator's
\* account is deleted, and with it the sessions it created.
DeleteOperator(uid) ==
  /\ \E s \in sessions : s.created_by = uid
  /\ sessions' = {s \in sessions : s.created_by # uid}
  /\ records' = CascadeDelete(records,
                              {s.id : s \in {x \in sessions :
                                                x.created_by = uid}})
  /\ UNCHANGED <<nextId, now, authUid, form>>
  /\ UNCHANGED pageVars
  /\ UNCHANGED widgetVars

AdminNext ==
  \/ StoreNext
  \/ \E sid \in SessionIds : DeleteSession(sid)
  \/ DeleteOperator(Admin)

SpecAdmin == StoreInit /\ [][AdminNext]_vars

(* ---- SessionGenerator: creating sessions ---- *)

\* What generateSessionCode and generateNetworkToken may have put into the
\* form: values in use and values not in use.
GeneratedCodes == {"ABCD", "IJKL"}
GeneratedTokens == {"WXYZ", "MNOP"}

\* gen_random_uuid(): an id no row has.
IdPool == <<"s3", "s4", "s5">>
NewSessionIds == {IdPool[i] : i \in 1..MaxCreated}

Duration == 1   \* the form's duration, in ticks of the clock

\* session_code TEXT NOT NULL UNIQUE
SessionCodeTaken(code) == \E s \in sessions : s.session_code = code

\* handleCreateSession of a logged-in operator with name, code and token
\* filled in: the INSERT into tpo_sessions passes the policy "Admins can
\* create sessions" (created_by is the operator's own id) and is refused with
\* a unique violation when the code is in use; the error is shown as a toast.
CreateSession(code, token, id) ==
  /\ id \in NewSessionIds
  /\ \A s \in sessions : s.id # id
  /\ sessions' = IF SessionCodeTaken(code) THEN sessions
                 ELSE sessions \cup
                        {[id |-> id, session_code |-> code,
                          network_token |-> token, created_by |-> Admin,
                          is_active |-> TRUE, expires_at |-> now + Duration]}
  /\ UNCHANGED <<records, nextId, now, authUid, form>>
  /\ UNCHANGED pageVars
  /\ UNCHANGED widgetVars

CreateNext ==
  \/ \E code \in GeneratedCodes, token \in GeneratedTokens,
        id \in NewSessionIds : CreateSession(code, token, id)
  \/ \E sid \in SessionIds : DeleteSession(sid) \/ ToggleSessionActive(sid)
  \/ Tick

SpecCreate == StoreInit /\ [][CreateNext]_vars

(* ---- claims about the store and StudentForm (SpecStore) ---- *)

AtMostOnePerPair ==
  \A r1, r2 \in records :
    (r1.session_id = r2.session_id
       /\ r1.device_fingerprint = r2.device_fingerprint) => r1 = r2

\* The database answered tab t's INSERT in this step.
DbAnswered(t) ==
  form[t].pc = "sent" /\ form'[t].pc = "replied" /\ form'[t].error # "fetch"

\* C1 as stated: at most one attendance record per (session id, device
\* fingerprint), and every insert for an existing pair is answered with the
\* uniqueness conflict 23505 and leaves the records unchanged.
C1_DuplicateAlwaysConflict ==
  /\ []AtMostOnePerPair
  /\ [][\A t \in Tabs :
          (DbAnswered(t)
             /\ UniqueViolation(form[t].row.session_id, form[t].row.device_fingerprint))
          => (form'[t].error = "23505" /\ records' = records)]_vars

\* C1 amended: at most one attendance record per (session id, device
\* fingerprint); every insert for an existing pair is rejected and leaves
\* every record unchanged; the rejection is the conflict 23505 whenever the
\* session is active and unexpired, and may be the policy violation 42501
\* when it is not.
C1_UniqueNotOverwritten ==
  /\ []AtMostOnePerPair
  /\ [][records \subseteq records']_vars
  /\ [][\A t \in Tabs :
          (DbAnswered(t)
             /\ UniqueViolation(form[t].row.session_id, form[t].row.device_fingerprint))
          => /\ form'[t].error \in {"23505", "42501"}
             /\ records' = records
             /\ (InsertPolicy(form[t].row.session_id) => form'[t].error = "23505")]_vars

\* A second submission for an existing pair, carrying other student data,
\* has been answered with the conflict and the first record is still there.
C1_Witness ==
  \E t \in Tabs :
    /\ form[t].pc = "replied" /\ form[t].error = "23505"
    /\ \E r \in records :
         /\ r.session_id = form[t].row.session_id
         /\ r.device_fingerprint = form[t].row.device_fingerprint
         /\ r.uid # form[t].row.uid

\* C2: on the reply 23505 handleFormSubmit shows the 'already recorded'
\* message, resets isSubmitting, leaves isSubmitted false, does not call
\* onSubmit, and neither the rejected insert nor the handler adds a row.
C2_ConflictSurfacedAsAlreadyRecorded ==
  /\ [][\A t \in Tabs :
          (form[t].pc = "replied" /\ form[t].error = "23505"
             /\ form'[t] # form[t])
          => /\ form'[t].toast = "already"
             /\ form'[t].isSubmitting = FALSE
             /\ form'[t].isSubmitted = FALSE
             /\ form'[t].onSubmitCalls = form[t].onSubmitCalls
             /\ records' = records]_vars
  /\ [][\A t \in Tabs :
          (DbAnswered(t) /\ form'[t].error = "23505") => records' = records]_vars

C2_Witness ==
  \E t \in Tabs :
    /\ form[t].toast = "already" /\ form[t].pc = "idle"
    /\ ~form[t].isSubmitting /\ ~form[t].isSubmitted
    /\ form[t].onSubmitCalls = 0

\* C3: a record is created only by an insert whose session is active and
\* unexpired at that moment; an insert for a session that is no longer
\* active or has expired is rejected and creates no record.
C3_AcceptedOnlyWhileOpen ==
  /\ [][\A r \in records' \ records :
          \E s \in sessions :
            s.id = r.session_id /\ s.is_active /\ s.expires_at > now]_vars
  /\ [][\A t \in Tabs :
          (DbAnswered(t)
             /\ ~\E s \in sessions : /\ s.id = form[t].row.session_id
                                     /\ s.is_active /\ s.expires_at > now)
          => (form'[t].error \in {"42501", "23505"} /\ records' = records)]_vars

\* A form that was displayed for an open session submitted after the session
\* was closed or had expired, and was rejected without a record.
C3_Witness ==
  \E t \in Tabs :
    /\ form[t].pc = "replied" /\ form[t].error = "42501"
    /\ ~UniqueViolation(form[t].row.session_id, form[t].row.device_fingerprint)

(* ---- claims about the StudentAttendance page (Spec) ---- *)

\* handleNetworkTokenComplete started a check in this step.
NetworkCheckStarted ==
  /\ page'.networkStatus = "verifying"
  /\ \E k \in tasks : k.kind = "netTimer" /\ k \notin tasks'

\* C4: a step's check is started only while every preceding step is
\* verified: Network only while Code is verified, Location only while Code
\* and Network are, Device only while Code, Network and Location are.
C4_StrictSequentialGating ==
  [][/\ NetworkCheckStarted => page.codeStatus = "verified"
     /\ runs'.loc = runs.loc + 1
          => (page.codeStatus = "verified" /\ page.networkStatus = "verified")
     /\ runs'.dev = runs.dev + 1
          => /\ page.codeStatus = "verified"
             /\ page.networkStatus = "verified"
             /\ page.locationStatus = "verified"]_vars

\* C5: showForm becomes true only when the armed settle timer fires, the
\* timer is armed only while Code, Network, Location and Device are verified,
\* Time is valid, and neither showForm nor alreadySubmitted is set, so all
\* five steps are verified at the instant showForm becomes true.
C5_FormOnlyThroughSettleTimer ==
  /\ [](formTimer => ShowFormCond(page))
  /\ [][(~page.showForm /\ page'.showForm)
          => /\ formTimer
             /\ allVerified(page) /\ ~page.alreadySubmitted
             /\ allVerified(page')]_vars

\* The form is displayed after the timer fired.
C5_Witness == page.showForm /\ ~page.alreadySubmitted /\ ~formTimer

\* C6: when a record for (session, fingerprint) existed as the Device step
\* resolved verified, the attendance form is never displayed for that
\* session and fingerprint.
C6_NoFormWhenAlreadyRecorded ==
  \A pr \in existed :
    ~(/\ FormRendered(page)
      /\ page.sessionData.id = pr[1]
      /\ page.deviceFingerprint = pr[2])

(* ---- claims about LocationVerifier (SpecLoc) ---- *)

\* The samples agree in latitude, longitude and accuracy.
Identical(samples) ==
  \A i, j \in 1..Len(samples) :
    /\ samples[i].latitude = samples[j].latitude
    /\ samples[i].longitude = samples[j].longitude
    /\ samples[i].accuracy = samples[j].accuracy

\* This step delivers pos as the last sample of the attempt r.
LastSampleArrives(r, pos) ==
  LocSample(r, pos) /\ Len(r.samples) = SampleCount - 1

ParentLocation(pos) ==
  [latitude |-> pos.latitude, longitude |-> pos.longitude, isNull |-> FALSE]

C8_StaticSamplesSpoofed ==
  [][\A r \in locRuns, pos \in Positions :
       (LastSampleArrives(r, pos) /\ Identical(Append(r.samples, pos)))
         => /\ r.live => loc'.status = "spoofed"
            /\ page'.locationStatus = "failed"
            /\ page'.userLocation = page.userLocation
            /\ ~allVerified(page')
            /\ ~formTimer'
            /\ page'.showForm = page.showForm]_vars

\* Static samples taken inside the geofence ended in spoofed.
C8_Witness ==
  /\ loc.status = "spoofed" /\ geoRequests = SampleCount
  /\ loc.error = <<"GPS spoofing detected">>
  /\ page.locationStatus = "failed"
  /\ env.targetLocation = Campus

\* C9: with a target, an untampered API and non-static samples the attempt
\* ends verified with the last sample's coordinates if the distance from the
\* last sample to the target is at most the radius and failed otherwise,
\* whatever warnings validateGPSReading gives.
C9_VerifiedIffWithinRadius ==
  [][\A r \in locRuns, pos \in Positions :
       (/\ LastSampleArrives(r, pos)
        /\ ~Identical(Append(r.samples, pos))
        /\ ~env.targetLocation.isNull)
         => LET distance == calculateDistance(pos.latitude, pos.longitude,
                                              env.targetLocation.lat,
                                              env.targetLocation.lng)
            IN IF distance <= env.targetLocation.radiusMeters
               THEN /\ r.live => (loc'.status = "verified" /\ loc'.coords = pos)
                    /\ page'.locationStatus = "verified"
                    /\ page'.userLocation = ParentLocation(pos)
               ELSE /\ r.live =>
                         /\ loc'.status = "failed"
                         /\ loc'.error = <<"away", distance,
                                           env.targetLocation.radiusMeters>>
                    /\ page'.locationStatus = "failed"
                    /\ page'.userLocation = page.userLocation]_vars

\* A reading with quality warnings was verified on the boundary of a
\* geofence of radius 0.
C9_Witness ==
  /\ loc.status = "verified" /\ env.targetLocation = CampusPoint
  /\ loc.coords = AtTargetRaw
  /\ Len(loc.spoofWarnings) = 4
  /\ page.locationStatus = "verified"

\* C10: without a target every attempt whose API check passed and whose
\* three samples are not static ends verified with the coordinates of the
\* last sample, wherever that is (the status is that of the verifier still
\* mounted; the parent is told verified with those coordinates in any case).
C10_NoTargetAlwaysVerified ==
  [][\A r \in locRuns, pos \in Positions :
       (/\ LastSampleArrives(r, pos)
        /\ ~Identical(Append(r.samples, pos))
        /\ env.targetLocation.isNull)
         => /\ r.live => (loc'.status = "verified" /\ loc'.coords = pos)
            /\ page'.locationStatus = "verified"
            /\ page'.userLocation = ParentLocation(pos)]_vars

C10_Witness ==
  /\ loc.status = "verified" /\ env.targetLocation.isNull
  /\ loc.coords = FarAway
  /\ page.userLocation = ParentLocation(FarAway)

(* ---- claims about progress of the steps (SpecLive) ---- *)

TerminalStatus == {"verified", "failed", "spoofed"}

\* C11: no step stays in verifying forever: a Code or Network step that is
\* verifying reaches verified or failed, a verifier that is verifying
\* reaches verified, failed or spoofed unless its component is unmounted
\* first, and every started verifyLocation and verifyDevice call finishes.
C11_NoStepStuckVerifying ==
  /\ (page.codeStatus = "verifying") ~> (page.codeStatus \in TerminalStatus)
  /\ (page.networkStatus = "verifying")
       ~> (page.networkStatus \in TerminalStatus)
  /\ (loc.status = "verifying")
       ~> (loc.status \in TerminalStatus \/ ~LocRendered(page))
  /\ (dev.status = "verifying")
       ~> (dev.status \in TerminalStatus \/ ~DevRendered(page))
  /\ (locRuns # {}) ~> (locRuns = {})
  /\ (devRuns # {}) ~> (devRuns = {})

\* The Location step ended failed through the error callback while Code and
\* Network had ended verified.
C11_Witness ==
  /\ page.codeStatus = "verified" /\ page.networkStatus = "verified"
  /\ loc.status = "failed" /\ loc.error = <<"Location access denied">>
  /\ page.locationStatus = "failed" /\ locRuns = {}

(* ---- claims about overlapping checks (Spec) ---- *)

\* A later handleSessionCodeComplete, or a later token check, has started
\* since the check k did.
Superseded(k) ==
  \/ /\ k.kind = "codeQuery"
     /\ \E j \in (k.id + 1)..runs.code :
          ~\E t \in tasks : t.kind = "codeTimer" /\ t.id = j
  \/ /\ k.kind = "netVerify"
     /\ \E j \in (k.id + 1)..runs.net :
          ~\E t \in tasks : t.kind = "netTimer" /\ t.id = j

\* C12: a result that arrives after its check was superseded by a later
\* check of the same step, or after its component was unmounted, changes
\* neither the step statuses nor the stored session.
C12_StaleResultIgnored ==
  [][/\ \A k \in tasks :
          (k \notin tasks' /\ Superseded(k))
            => /\ page'.codeStatus = page.codeStatus
               /\ page'.networkStatus = page.networkStatus
               /\ page'.sessionData = page.sessionData
     /\ \A r \in locRuns :
          (~r.live /\ r \notin locRuns')
            => page'.locationStatus = page.locationStatus
     /\ \A r \in devRuns :
          (~r.live /\ r \notin devRuns')
            => page'.deviceStatus = page.deviceStatus]_vars

\* Checks of a step that are scheduled or awaiting their result.
InFlight(kinds) == {k \in tasks : k.kind \in kinds}

\* C13: at most one check of each of Code, Network, Location and Device is
\* in flight (scheduled or awaiting its result) in every reachable state.
C13_NoOverlappingChecks ==
  /\ Cardinality(InFlight({"codeTimer", "codeQuery"})) <= 1
  /\ Cardinality(InFlight({"netTimer", "netVerify"})) <= 1
  /\ Cardinality(locRuns) <= 1
  /\ Cardinality(devRuns) <= 1

(* ---- claims about retries and sampling of LocationVerifier (SpecLoc) ---- *)

\* C14: when a retry of a failed or spoofed LocationVerifier starts its
\* checks, the error, the spoof warnings and the coordinates kept from the
\* previous attempt are all cleared.
C14_RetryStartsFresh ==
  [][(/\ runs'.loc = runs.loc + 1
      /\ loc.status \in {"failed", "spoofed"}
      /\ loc'.status = "verifying")
       => /\ loc'.error = <<>>
          /\ loc'.spoofWarnings = <<>>
          /\ loc'.coords = NoCoords]_vars

(* ---- claims about the aggregate step machine (Spec) ---- *)

StepFields == {"codeStatus", "networkStatus", "locationStatus", "deviceStatus"}

\* C15: every step of the page starts pending, and a step that is pending or
\* failed changes only to verifying: none goes from pending or failed
\* directly to verified or failed.
C15_ThroughVerifying ==
  [][\A f \in StepFields :
       page[f] \in {"pending", "failed"}
         => page'[f] \in {page[f], "verifying"}]_vars

\* Sessions of the store, as it is now, with the code c, active and not expired.
OpenSessions(c) ==
  {s \in sessions : s.session_code = c /\ s.is_active = TRUE
                      /\ s.expires_at > now}

\* C16: the Code step resolves to verified, storing the session, only if the
\* store then holds an active unexpired session with the upper-cased code;
\* otherwise it resolves to failed, no session is stored and Network,
\* Location and Device are not eligible.
C16_CodeVerifiedOnlyForOpenSession ==
  [][\A k \in tasks :
       (k.kind = "codeQuery" /\ k \notin tasks')
         => IF page'.codeStatus = "verified"
            THEN \E s \in OpenSessions(k.arg) : page'.sessionData.id = s.id
            ELSE /\ page'.codeStatus = "failed"
                 /\ page'.sessionData = NoSession
                 /\ ~NetInputEnabled(page')
                 /\ ~LocRendered(page')
                 /\ ~DevRendered(page')]_vars

(* ---- claims about the end-to-end success path (SpecHappy) ---- *)

\* The code check found session s1.
CodeMatched == page.codeStatus = "verified" /\ page.sessionData.id = "s1"

SessionOpen ==
  \E x \in sessions : x.id = "s1" /\ x.is_active = TRUE /\ x.expires_at > now

\* All five steps verified, the form shown, and its submission stored as the
\* only record, without conflict.
Submitted ==
  /\ allVerified(page) /\ page.showForm /\ ~page.alreadySubmitted
  /\ form[PageTab].isSubmitted /\ form[PageTab].toast = "success"
  /\ \E r \in records :
       /\ records = {r}
       /\ r.session_id = "s1" /\ r.device_fingerprint = "f1"

C18_ResolveStep ==
  \A r \in locRuns, pos \in Positions :
    (LocSample(r, pos) /\ r.count >= 1) =>
      IF \A n \in locRuns' : n.id # r.id
      THEN /\ Len(r.samples) + 1 = r.count
           /\ r.issued = r.count
           /\ locRuns' = locRuns \ {r}
           /\ geoRequests' = geoRequests
      ELSE /\ Len(r.samples) + 1 < r.count
           /\ page' = page
           /\ loc' = loc

C18_RejectStep ==
  \A q \in locRuns, code \in PositionErrorCodes :
    LocSampleError(q, code) =>
      /\ locRuns' = locRuns \ {q}
      /\ geoRequests' = geoRequests
      /\ page'.locationStatus = "failed"
      /\ page'.userLocation = page.userLocation
      /\ (q.live => /\ loc'.status = "failed"
                     /\ loc'.error = PositionErrorMessage(code)
                     /\ loc'.coords = loc.coords)

C18_AllOrNothing ==
  [][/\ C18_ResolveStep
     /\ C18_RejectStep
     /\ (locRuns = {} => geoRequests' = geoRequests)]_vars

\* A call rejected by its second request after the first one succeeded.
C18_Witness ==
  /\ locRuns = {} /\ geoRequests = 2
  /\ loc.status = "failed" /\ loc.error = <<"Location request timed out">>
  /\ loc.coords = NoCoords
  /\ page.locationStatus = "failed" /\ page.userLocation = NoLocation

\* C19: collectLocationSamples serializes its requests.  A call never has
\* more than one request outstanding, nor one outstanding while its delay
\* timer is armed; the requests it has issued are those that succeeded plus
\* the outstanding one; request k+1 is issued only by the delay timer armed
\* at the success of request k; and the k-th stored sample is the one
\* captured by request k.
C19_OneOutstanding ==
  \A r \in locRuns :
    /\ Cardinality(r.pending) <= 1
    /\ ~(r.timer /\ r.pending # {})
    /\ r.issued = Len(r.samples) + Cardinality(r.pending)
    /\ Len(r.order) = Len(r.samples)
    /\ \A i \in 1..Len(r.order) : r.order[i] = i

C19_NextAfterDelay ==
  \A r \in locRuns, n \in locRuns' :
    (n.id = r.id /\ n.issued > r.issued) =>
      /\ LocSampleTimer(r)
      /\ r.timer /\ r.pending = {}
      /\ Len(r.samples) = r.issued
      /\ n.issued = r.issued + 1
      /\ n.pending = {r.issued + 1}
      /\ n.samples = r.samples

C19_Serialized == []C19_OneOutstanding /\ [][C19_NextAfterDelay]_vars

\* Two different samples are stored and the third request is outstanding.
C19_Witness ==
  \E r \in locRuns :
    /\ r.samples = <<AtTarget, FarAway>>
    /\ r.order = <<1, 2>>
    /\ r.pending = {3}

\* C20: analyzeLocationSamples returns suspicious if and only if there are at
\* least 2 samples and every sample has the latitude, the longitude and the
\* accuracy of the first; otherwise it returns not suspicious with an empty
\* reason.  Stated of every series a call has stored and of that series
\* extended by any next position, which is what the call analyses at its end.
AllSameAsFirst(samples) ==
  /\ Len(samples) >= 2
  /\ \A i \in 1..Len(samples) :
       /\ samples[i].latitude = samples[1].latitude
       /\ samples[i].longitude = samples[1].longitude
       /\ samples[i].accuracy = samples[1].accuracy

C20_Verdict(samples) ==
  /\ analyzeLocationSamples(samples).isSuspicious <=> AllSameAsFirst(samples)
  /\ ~AllSameAsFirst(samples) =>
       analyzeLocationSamples(samples) = [isSuspicious |-> FALSE, reason |-> ""]
  /\ AllSameAsFirst(samples) => analyzeLocationSamples(samples).reason # ""

C20_SuspiciousIffAllIdentical ==
  \A r \in locRuns :
    /\ C20_Verdict(r.samples)
    /\ \A pos \in Positions : C20_Verdict(Append(r.samples, pos))

\* A series of two readings equal in latitude, longitude and accuracy, which
\* a third reading can leave identical or break in accuracy only.
C20_Witness ==
  \E r \in locRuns :
    /\ r.samples = <<AtTarget, AtTarget>>
    /\ analyzeLocationSamples(r.samples).isSuspicious
    /\ ~analyzeLocationSamples(Append(r.samples, AtTargetRaw)).isSuspicious

\* C21: validateGPSReading gives exactly one warning for each condition that
\* holds (accuracy equal to 0; accuracy below 1 m; altitude null with accuracy
\* below 10 m; speed non-null and above 100) and none for a condition that
\* does not hold, and isValid is true exactly when the list is empty; the
\* component shows that list for the last reading of a series.
Occurrences(seq, w) == Cardinality({i \in 1..Len(seq) : seq[i] = w})

Indicator(b) == IF b THEN 1 ELSE 0

C21_Reading(c) ==
  LET v == validateGPSReading(c)
      zero == c.accuracy = 0
      precise == c.accuracy < OneMetre
      noAltitude == c.altitude = <<>> /\ c.accuracy < TenMetres
      fast == c.speed # <<>> /\ c.speed[1] > MaxSpeed
  IN /\ Occurrences(v.warnings, "GPS accuracy is exactly 0") = Indicator(zero)
     /\ Occurrences(v.warnings, "GPS accuracy is suspiciously precise")
          = Indicator(precise)
     /\ Occurrences(v.warnings, "High accuracy but no altitude data")
          = Indicator(noAltitude)
     /\ Occurrences(v.warnings, "Unrealistic movement speed detected")
          = Indicator(fast)
     /\ Len(v.warnings) = Indicator(zero) + Indicator(precise)
                            + Indicator(noAltitude) + Indicator(fast)
     /\ v.isValid <=> (v.warnings = <<>>)
     /\ zero => Len(v.warnings) >= 2

C21_OneWarningPerCondition ==
  [][\A r \in locRuns, pos \in Readings :
       LocSample(r, pos) =>
         /\ C21_Reading(pos)
         /\ loc'.spoofWarnings = validateGPSReading(pos).warnings]_vars

\* The last reading had accuracy 0, no altitude and speed 150: four warnings.
C21_Witness ==
  /\ locRuns = {}
  /\ loc.coords.accuracy = 0 /\ loc.coords.altitude = <<>>
  /\ loc.coords.speed = <<150>>
  /\ Len(loc.spoofWarnings) = 4

\* C22: checkLocationSpoofing is suspicious exactly when its reasons list is
\* non-empty; the list holds a reason when getCurrentPosition is not native,
\* when probing the API throws, and when the user agent contains "mock" or
\* "fake", and nothing else; with none of these the result is not suspicious
\* with no reasons.  verifyLocation stops as spoofed, showing the reasons,
\* exactly when the result is suspicious.
Has(seq, w) == \E i \in 1..Len(seq) : seq[i] = w

C22_Check ==
  LET v == checkLocationSpoofing
      patched == env.geoApi = "patched"
      throws == env.geoApi = "throws"
      mockAgent == env.userAgent \in {"MockGPS/2.1", "FakeLocation/1.0"}
  IN /\ v.isSuspicious <=> (v.reasons # <<>>)
     /\ Has(v.reasons, "Geolocation API appears to be modified") <=> patched
     /\ Has(v.reasons, "Unable to verify Geolocation API integrity")
          <=> throws
     /\ Has(v.reasons, "Mock location indicator detected in user agent")
          <=> mockAgent
     /\ Len(v.reasons) = Indicator(patched) + Indicator(throws)
                           + Indicator(mockAgent)
     /\ (~patched /\ ~throws /\ ~mockAgent) =>
          v = [isSuspicious |-> FALSE, reasons |-> <<>>]

C22_SuspiciousIffReasons ==
  [][(LocStart /\ env.geolocation) =>
       /\ C22_Check
       /\ IF checkLocationSpoofing.isSuspicious
          THEN /\ loc'.status = "spoofed"
               /\ loc'.spoofWarnings = checkLocationSpoofing.reasons
               /\ locRuns' = locRuns
          ELSE /\ loc'.status = "verifying"
               /\ loc'.spoofWarnings = <<>>]_vars

\* The probe threw under an ordinary user agent: one reason, spoofed.
C22_Witness ==
  /\ env.geoApi = "throws" /\ env.userAgent = "Mozilla/5.0"
  /\ loc.status = "spoofed"
  /\ loc.spoofWarnings = <<"Unable to verify Geolocation API integrity">>

\* C23: device consistency.  An attempt that read no stored fingerprint
\* stores the current one as the baseline and resolves to verified; an attempt
\* that read a stored one leaves it as it is and resolves to verified exactly
\* when the current fingerprint equals it, a mismatch resolving the Device
\* step to failed with no fingerprint passed to the page and no duplicate
\* query issued.  Between the read and the decision the store is unchanged.
C23_Finish(r) ==
  /\ r.stored = env.storage
  /\ IF r.stored = Null
     THEN /\ env'.storage = r.current
          /\ page'.deviceStatus = "verified"
          /\ page'.deviceFingerprint = r.current
     ELSE /\ env'.storage = r.stored
          /\ page'.deviceStatus = "verified" <=> r.current = r.stored
          /\ r.current = r.stored => page'.deviceFingerprint = r.current
          /\ r.current # r.stored =>
               /\ page'.deviceStatus = "failed"
               /\ page'.deviceFingerprint = page.deviceFingerprint
               /\ tasks' = tasks
  /\ (r.live /\ DevRendered(page')) =>
       /\ dev'.status = page'.deviceStatus
       /\ dev'.status = "verified" => dev'.fingerprint = r.current

C25_Evaluation(ended) ==
  (TimeEffect /\ timeWin.start # <<>> /\ timeWin.end # <<>>) =>
    LET t == timeWin.currentTime
        start == timeWin.start[1]
        end == timeWin.end[1]
    IN /\ (timeWin'.isValid <=> (start <= t /\ t <= end))
       /\ (page'.timeValid = timeWin'.isValid)
       /\ (t < start =>
             (~timeWin'.isValid
                /\ timeWin'.message = <<"Session starts at", start>>))
       /\ (ended[t, start, end] =>
             (~timeWin'.isValid
                /\ timeWin'.message = <<"Session has ended">>))
       /\ (\A f \in StepFields : page'[f] = page[f])

C25_TickReadsClock ==
  (TimeTick /\ timeWin.start # <<>> /\ timeWin.end # <<>>) =>
    (timeWin'.currentTime = now /\ timeWin'.effect)

Instants == 0..(MaxClock + 1)

C25_TimeStepBothMessages ==
  /\ [][C25_Evaluation([t, start, end \in Instants |-> t > end])]_vars
  /\ [][C25_TickReadsClock]_vars

C25_TimeStepWithinBounds ==
  /\ [][C25_Evaluation([t, start, end \in Instants |->
                          t > end /\ t >= start])]_vars
  /\ [][C25_TickReadsClock]_vars

\* Bounds with start later than end, evaluated at an instant between them on
\* a page whose Code and Network steps are verified: failed, "starts at".
C25_Witness ==
  /\ timeWin.start = <<2>> /\ timeWin.end = <<0>> /\ timeWin.currentTime = 1
  /\ ~timeWin.effect /\ ~timeWin.isValid /\ ~page.timeValid
  /\ timeWin.message = <<"Session starts at", 2>>
  /\ page.codeStatus = "verified"

\* C26: deleting a session deletes all of its attendance records, so in every
\* reachable state of the store every attendance record references a session
\* that exists.
C26_Referenced ==
  \A r \in records : \E s \in sessions : s.id = r.session_id

C26_DeleteStep ==
  \A sid \in SessionIds :
    DeleteSession(sid) =>
      /\ \A s \in sessions' : s.id # sid
      /\ \A r \in records' : r.session_id # sid
      /\ \A r \in records : r.session_id # sid => r \in records'

C26_NoOrphanRecords == []C26_Referenced /\ [][C26_DeleteStep]_vars

\* Session s1 was deleted after a record had been stored for it, while a
\* record of the other session remains.
C26_Witness ==
  /\ \A s \in sessions : s.id # "s1"
  /\ nextId = 3 /\ Cardinality(records) = 1
  /\ \E r \in records : r.session_id = "s2"

\* C27: generateSecureCode returns a string of exactly the requested length
\* whose every character belongs to the 32-character alphabet, so it never
\* contains "0", "O", "I" or "1"; session codes and network tokens are such
\* strings of length 8.  As stated this is for every requested length
\* (C27_EveryLength); as the code behaves it is for every length from 0 to
\* the number of elements crypto.getRandomValues accepts, the call throwing
\* for any other length (C27_CodeFromAlphabet).
C27_Returned ==
  gen.pc = "returned" =>
    /\ Len(gen.result) = gen.length
    /\ Len(ALPHANUMERIC) = 32
    /\ \A i \in 1..Len(gen.result) :
         /\ \E j \in 1..Len(ALPHANUMERIC) : gen.result[i] = ALPHANUMERIC[j]
         /\ gen.result[i] \notin {"0", "O", "I", "1"}
    /\ gen.caller \in {"generateSessionCode", "generateNetworkToken"} =>
         Len(gen.result) = 8

C27_EveryLength == C27_Returned /\ gen.pc # "threw"

C27_CodeFromAlphabet ==
  /\ C27_Returned
  /\ gen.pc = "threw" =>
       (gen.length < 0 \/ gen.length > QuotaBytes \div BytesPerElement)
  /\ gen.pc \in {"loop", "returned"} =>
       (0 <= gen.length /\ gen.length <= QuotaBytes \div BytesPerElement)

\* A session code built from the largest and the smallest random values.
C27_Witness ==
  /\ gen.pc = "returned" /\ gen.caller = "generateSessionCode"
  /\ gen.result = <<"9", "A", "9", "A", "9", "A", "9", "A">>

\* C29: submission ledger.  recordSubmission(s, d, id) appends exactly one
\* entry for (s, d, id), keeps all earlier entries in order, makes
\* hasSubmitted(s, d) true and getSubmissionForSession(s, d) non-null, and
\* leaves hasSubmitted as it was for every other pair; what hasSubmitted and
\* getSubmissionForSession report for a pair stays so until clearSubmissions;
\* after clearSubmissions hasSubmitted is false for every pair.
C29_RecordStep ==
  \A c \in LedgerCodes, fp \in Fingerprints, id \in StudentIds :
    RecordSubmission(c, fp, id) =>
      /\ Len(getSubmissions(ledger')) = Len(getSubmissions(ledger)) + 1
      /\ \A i \in 1..Len(getSubmissions(ledger)) :
           getSubmissions(ledger')[i] = getSubmissions(ledger)[i]
      /\ LET last == getSubmissions(ledger')[Len(getSubmissions(ledger'))]
         IN /\ last.sessionCode = c /\ last.deviceFingerprint = fp
            /\ last.studentId = id
      /\ hasSubmitted(ledger', c, fp)
      /\ getSubmissionForSession(ledger', c, fp) # <<>>
      /\ \A c2 \in LedgerCodes, fp2 \in Fingerprints :
           <<c2, fp2>> # <<c, fp>> =>
             (hasSubmitted(ledger', c2, fp2) <=> hasSubmitted(ledger, c2, fp2))

C29_UntilCleared ==
  \A c \in LedgerCodes, fp \in Fingerprints :
    (hasSubmitted(ledger, c, fp) /\ ~ClearSubmissions) =>
      /\ hasSubmitted(ledger', c, fp)
      /\ getSubmissionForSession(ledger', c, fp) # <<>>
      /\ getSubmissionForSession(ledger', c, fp)
           = getSubmissionForSession(ledger, c, fp)

C29_ClearStep ==
  ClearSubmissions =>
    \A c \in LedgerCodes, fp \in Fingerprints :
      /\ ~hasSubmitted(ledger', c, fp)
      /\ getSubmissionForSession(ledger', c, fp) = <<>>

C29_Ledger ==
  [][C29_RecordStep /\ C29_UntilCleared /\ C29_ClearStep]_vars

\* Three entries, two of them for the same pair at different instants.
C29_Witness ==
  /\ Len(getSubmissions(ledger)) = 3
  /\ getSubmissions(ledger)[1].sessionCode = "TPO123"
  /\ getSubmissions(ledger)[1].deviceFingerprint = "f1"
  /\ getSubmissions(ledger)[2].sessionCode = "TPO999"
  /\ getSubmissions(ledger)[3].sessionCode = "TPO123"
  /\ getSubmissions(ledger)[3].deviceFingerprint = "f1"
  /\ getSubmissions(ledger)[3].timestamp > getSubmissions(ledger)[1].timestamp
  /\ getSubmissionForSession(ledger, "TPO123", "f1")
       = <<getSubmissions(ledger)[1]>>

\* C28: on the Index page with the local submission ledger, across any page
\* loads and any interleaving of the tabs of one browser, the ledger holds at
\* most one submission per (session code, device fingerprint).
C28_OnePerSessionAndDevice ==
  \A i, j \in 1..Len(getSubmissions(ledger)) :
    (/\ getSubmissions(ledger)[i].sessionCode
          = getSubmissions(ledger)[j].sessionCode
     /\ getSubmissions(ledger)[i].deviceFingerprint
          = getSubmissions(ledger)[j].deviceFingerprint) => i = j

\* C30: after the cleanup function returned by startDevToolsDetection has
\* run, that subscription's polling interval is cleared, its keydown and
\* contextmenu handlers are removed, its callback is no longer in the listener
\* registry, and the subscription never invokes its callback again.
C30_Released(id) ==
  /\ id \notin detect.intervals
  /\ \A i \in 1..Len(detect.keydown) : detect.keydown[i] # id
  /\ \A i \in 1..Len(detect.contextmenu) : detect.contextmenu[i] # id
  /\ \A i \in 1..Len(detect.listeners) : detect.listeners[i].sub # id
  /\ \A i \in 1..Len(detect.calls) : detect.calls[i].sub # id

C30_CleanupStep ==
  \A id \in 1..MaxSubs :
    DetectCleanup(id) =>
      \A i \in 1..Len(detect'.listeners) :
        detect'.listeners[i].cb # detect.subs[id].callback

C30_StaysReleased ==
  \A id \in 1..Len(detect.subs) :
    detect.subs[id].stopped => (C30_Released(id))'

C30_CleanupReleases == [][C30_CleanupStep /\ C30_StaysReleased]_vars

\* Subscription 1 was cleaned up while subscription 2 is still polling, and a
\* later subscription passed the same function as subscription 1: the latest
\* step invoked that function, for the later subscription only.
C30_Witness ==
  /\ Len(detect.subs) = 3
  /\ detect.subs[1].stopped /\ ~detect.subs[2].stopped
  /\ detect.subs[3].callback = detect.subs[1].callback
  /\ detect.subs[2].callback # detect.subs[1].callback
  /\ \E i \in 1..Len(detect.calls) : detect.calls[i].sub = 3
  /\ \E i \in 1..Len(detect.calls) : detect.calls[i].sub = 2

\* C31: several devtools-detection subscriptions coexist without cross-talk:
\* starting or stopping one subscription never changes which state-change
\* notifications another still-active subscription receives, also when two
\* subscriptions were started with the same callback function.  A subscription
\* receives the notifications of listeners.forEach exactly while the registry
\* holds the entry it pushed, so every subscription that was not cleaned up
\* still has its entry.
C31_ActiveStaysRegistered ==
  \A id \in 1..Len(detect.subs) :
    ~detect.subs[id].stopped =>
      \E i \in 1..Len(detect.listeners) : detect.listeners[i].sub = id

\* C32: session creation rejects exact duplicates: after any sequence of
\* session creations no two sessions in the store share the same session code
\* and no two share the same network token.
C32_CodesAndTokensUnique ==
  \A s1, s2 \in sessions :
    s1 # s2 => /\ s1.session_code # s2.session_code
               /\ s1.network_token # s2.network_token

\* C33: in every reachable state of the StudentAttendance page, if the
\* attendance form is displayed (showForm true and alreadySubmitted false)
\* then Code, Network, Location and Device are all verified and Time is valid.
C33_FormImpliesAllVerified == FormRendered(page) => allVerified(page)

\* C34: session binding: the session id the displayed form writes into a
\* record is the id of the session whose network token the Network step was
\* verified against: the Network step verifies against the stored session,
\* and the stored session is not replaced by another session once the Network
\* step is verified.
C34_VerifiedAgainstStored ==
  \A k \in tasks :
    (k.kind = "netVerify" /\ k \notin tasks'
       /\ page'.networkStatus = "verified")
      => k.sess.id = page'.sessionData.id

C34_StoredSessionKept ==
  (page.networkStatus = "verified" /\ page.sessionData # NoSession)
    => page'.sessionData.id = page.sessionData.id

C34_SessionBinding ==
  [][C34_VerifiedAgainstStored /\ C34_StoredSessionKept]_vars

\* C35: the stored device-fingerprint baseline is write-once: across any
\* sequence of device verifications storeFingerprint is called only when no
\* fingerprint is stored, so a baseline that exists is never overwritten, and
\* a device whose current fingerprint differs from it fails.
C35_StoreOnlyWhenEmpty ==
  /\ \A r \in devRuns :
       (DevFinish(r) /\ r.stored = Null) => env.storage = Null
  /\ \A t \in Tabs :
       (IdxDevFinish(t) /\ idx[t].devRun[1].stored = Null)
         => env.storage = Null

C35_BaselineKept == env.storage # Null => env'.storage = env.storage

C35_DifferentDeviceFails ==
  \A r \in devRuns :
    (DevFinish(r) /\ env.storage # Null /\ r.current # env.storage)
      => page'.deviceStatus = "failed"

C35_DifferentTabFails ==
  \A t \in Tabs :
    (/\ IdxDevFinish(t) /\ env.storage # Null
     /\ idx[t].devRun[1].current # env.storage)
      => idx'[t].deviceStatus = "failed"

C35_WriteOnce ==
  [][C35_StoreOnlyWhenEmpty /\ C35_BaselineKept
       /\ C35_DifferentDeviceFails /\ C35_DifferentTabFails]_vars

\* C36: the Network step of StudentAttendance resolves to verified if and
\* only if the upper-cased entered token equals the network token of the
\* session stored by the Code step, and to failed otherwise; when no session
\* is stored the handler does nothing and the step status is left unchanged.
C36_Resolves ==
  \A k \in tasks :
    (k.kind = "netVerify" /\ k \notin tasks') =>
      /\ page'.networkStatus \in {"verified", "failed"}
      /\ page'.networkStatus = "verified"
           <=> ToUpper(k.arg) = page.sessionData.network_token

C36_NoSessionNoChange ==
  \A k \in tasks :
    (k.kind = "netTimer" /\ k \notin tasks' /\ k.sess = NoSession) =>
      page'.networkStatus = page.networkStatus

C36_NetworkVerdict == [][C36_Resolves /\ C36_NoSessionNoChange]_vars

\* C37: each LocationVerifier attempt calls onVerificationComplete exactly
\* once: with true and the last sample's coordinates exactly when the attempt
\* ends in verified, and with false and no coordinates when it ends in failed
\* or spoofed; the parent records userLocation only from a verified attempt.
\* The call shows in the parent as handleLocationVerification applied to its
\* arguments; a step that ends no attempt makes no call.
C37_ReportedFailed ==
  /\ page'.locationStatus = "failed"
  /\ page'.userLocation = page.userLocation

C37_EndsWithLastSample ==
  \A r \in locRuns, pos \in Positions :
    LastSampleArrives(r, pos) =>
      LET out == LocationOutcome(loc, Append(r.samples, pos),
                                 env.targetLocation)
      IN /\ \A n \in locRuns' : n.id # r.id
         /\ IF out.state.status = "verified"
            THEN /\ page'.locationStatus = "verified"
                 /\ page'.userLocation = ParentLocation(pos)
            ELSE /\ out.state.status \in {"failed", "spoofed"}
                 /\ C37_ReportedFailed

C37_EndsWithError ==
  \A r \in locRuns, code \in PositionErrorCodes :
    LocSampleError(r, code) =>
      /\ \A n \in locRuns' : n.id # r.id
      /\ C37_ReportedFailed

C37_EndsAtStart ==
  (runs'.loc = runs.loc + 1 /\ locRuns' = locRuns) =>
    /\ loc'.status \in {"failed", "spoofed"}
    /\ C37_ReportedFailed

C37_NoOtherCall ==
  (/\ \A r \in locRuns : \E n \in locRuns' : n.id = r.id
   /\ ~(runs'.loc = runs.loc + 1 /\ locRuns' = locRuns))
    => /\ page'.locationStatus = page.locationStatus
       /\ page'.userLocation = page.userLocation

C37_OneCallPerAttempt ==
  [][/\ C37_EndsWithLastSample /\ C37_EndsWithError
     /\ C37_EndsAtStart /\ C37_NoOtherCall]_vars

\* A failed attempt was followed by a verified one, and the parent holds the
\* coordinates of the last sample of the second.
C37_Witness ==
  /\ runs.loc = 2 /\ locRuns = {}
  /\ loc.status = "verified" /\ page.locationStatus = "verified"
  /\ page.userLocation = ParentLocation(loc.coords)
  /\ geoRequests > SampleCount

\* C38: SecureCodeInput calls onComplete only with a string of exactly
\* `length` characters, each an upper-case letter or a digit, for every
\* sequence of typed characters and pastes; typed input that is not a single
\* alphanumeric character is rejected without changing the entered code, and
\* pasted text is stripped of non-alphanumeric characters and truncated to
\* `length`.
C38_CompleteCodes ==
  \A code \in sci'.timers :
    \A i \in 1..InputLength : UpperAlnum(code[i])

C38_Rejected ==
  \A index \in 1..InputLength, value \in ChangeValues :
    (SciChange(index, value) /\ value # "" /\ ~Alnum(value)) => sci' = sci

C38_Pasted ==
  \A text \in PastedTexts :
    SciPaste(text) =>
      LET kept == Take(UpperText(SelectSeq(text, Alnum)), InputLength)
      IN \A i \in 1..InputLength :
           sci'.code[i] = IF i <= Len(kept) THEN kept[i] ELSE sci.code[i]

C38_OnlyCleanCodes == [][C38_CompleteCodes /\ C38_Rejected /\ C38_Pasted]_vars

\* C39: TimeWindowCheck treats the Time step as valid at every tick, for
\* every current time, whenever the session start bound or the session end
\* bound is missing, also when exactly one of the two is given: the given
\* bound is then not enforced.
C39_BoundMissing == timeWin.start = <<>> \/ timeWin.end = <<>>

C39_ValidWhileMissing ==
  (timeWin # TimeWinAbsent /\ C39_BoundMissing)
    => (timeWin.isValid /\ page.timeValid)

C39_EvaluationValid ==
  (TimeEffect /\ C39_BoundMissing) =>
    /\ timeWin'.isValid
    /\ timeWin'.message = <<"Session is currently active">>
    /\ page'.timeValid

C39_PermissiveDefault == []C39_ValidWhileMissing /\ [][C39_EvaluationValid]_vars

\* Only the end bound is given and the evaluation ran at an instant after it.
C39_Witness ==
  /\ timeWin.start = <<>> /\ timeWin.end = <<0>>
  /\ timeWin.currentTime = 2 /\ ~timeWin.effect
  /\ timeWin.isValid /\ page.timeValid
  /\ timeWin.message = <<"Session is currently active">>

====
